---- MODULE Spec2Model ----
(***************************************************************************)
(* Model of the AI-analysis pipeline of simple-statsinsight:               *)
(*   - the rate limiter  backend/shared/utils.py  wait_for_rate_limit      *)
(*   - the pre-match and the post-match batch orchestrators                *)
(*     backend/features/football_analytics/orchestration.py                *)
(*   - the chunked conversation and the final-turn handling of             *)
(*     services/analyzer.py  analyze_with_gemini                           *)
(* Time is counted in tenths of a second, so that the per-model delays of  *)
(* 0.2 s, 0.5 s and 0.7 s are the integers 2, 5 and 7.                     *)
(***************************************************************************)
EXTENDS Integers, Sequences, FiniteSets, TLC

\* ------------------------------------------------------------------ bounds
\* Acquisitions started in one behaviour of the gate specifications.
MaxAcq == 3
\* Clock advances made by the environment between acquisitions.
MaxAdvance == 2
\* Largest configured rpm / rpd limit.
MaxLimit == 2
\* Items processed in one behaviour of the batch specification, over all runs.
MaxItems == 2
\* Store operations that fail (database errors) in one behaviour.
MaxFaults == 1
\* db_parameters["chunk_size_chars"] of the batch specification.
ChunkSize == 2
\* Longest input document of the conversation specification.
MaxDocLen == 4
\* Largest chunk_size_chars of the conversation specification.
MaxChunkSize == 3

\* ------------------------------------------------------- program constants
\* 60 seconds: the minute window (utils.py:46 and :63).
MinuteWindow == 600
\* sleep_time = 3600 seconds on a reached daily limit (utils.py:55).
DailySleep == 36000
\* One calendar day: datetime.now().day changes every 24 hours.
DayLength == 864000
\* Days per month of the model's calendar (datetime.now().day wraps to 1).
MonthLength == 30
\* delay_between_matches: 15 seconds by default (orchestration.py:77).
DelayBetweenMatches == 150

\* A limit that is not set (None) is the empty sequence, a set one is <<n>>.
None == <<>>

Limits == {None} \cup {<<n>> : n \in 0..MaxLimit}

\* The model names a configuration may carry: none, a name of the delay table
\* (in upper case), and a name carrying the "models/" prefix of the AI session.
ModelNames == {"", "GEMINI-1.0-PRO", "models/gemini-2.0-flash"}

\* The tasks that may call the gate (two batch runs of one process).
Tasks == {1, 2}

VARIABLES
    gate,        \* the module globals of utils.py (lines 14-17)
    now,         \* the clock: time.time() / datetime.now()
    rpm_limit,   \* db_parameters["rpm"], as passed to every acquisition
    rpd_limit,   \* db_parameters["rpd"]
    model_name,  \* the model_name argument of the acquisitions
    callers,     \* the tasks that call the gate in this behaviour
    pc,          \* pc[t]: position of task t inside wait_for_rate_limit
    current_time,\* current_time[t]: the local read at line 36
    wake,        \* wake[t]: when the pending asyncio.sleep of t ends
    running,     \* the task holding the event loop (0: none, all suspended)
    acq,         \* acq[t]: record of the acquisition in progress (history)
    log,         \* the completed acquisitions, in order of return (history)
    advances,    \* clock advances made so far
    store,       \* the predictions collection: the documents, in order of insertion
    fixtures,    \* the fixtures of the run in progress (orchestration.py:171)
    idx,         \* the loop variable i of orchestration.py:183
    phase,       \* the position of the run inside run_full_prediction_process
    existing_match,   \* orchestration.py:223
    stats_markdown,   \* orchestration.py:242
    analysis_result,  \* orchestration.py:306
    part,        \* the loop variable i of analyzer.py:204
    successfully_processed_count,  \* orchestration.py:179
    failed_count,     \* orchestration.py:180
    items,       \* items given to the batch runs so far
    faults,      \* store operations that failed so far
    cur,         \* what happened to the item being processed (history)
    task_type,   \* the task_type the analyzer is called with
    chunk_size_chars,    \* db_parameters["chunk_size_chars"]
    db_parameters,       \* the prompts and the output schema of db_parameters
    matches_to_analyze,  \* orchestration.py:503
    skipped_count,       \* orchestration.py:531
    run_status,  \* the "status" of the dict the run returned ("": none)
    other        \* the locals of the run that is suspended at an await

gateVars == <<gate, now, rpm_limit, rpd_limit, model_name, callers, pc,
              current_time, wake, running, acq, log, advances>>

batchVars == <<store, fixtures, idx, phase, existing_match, stats_markdown,
               analysis_result, part, successfully_processed_count,
               failed_count, items, faults, cur, task_type, chunk_size_chars,
               db_parameters,
               matches_to_analyze, skipped_count, run_status, other>>

vars == <<gateVars, batchVars>>

\* ---------------------------------------------------------------- the clock
\* datetime.now().day: the day of the month, 1..MonthLength.
DayOfMonth(t) == ((t \div DayLength) % MonthLength) + 1

\* The calendar date (days since the epoch of the model).
DateOf(t) == t \div DayLength

\* ------------------------------------------------------------ pure helpers
\* "rpd_limit is not None and rpd_limit > 0" / the same for rpm.
LimitSet(limit) == limit # None /\ limit[1] > 0

\* utils.py:53  request_count_day >= rpd_limit
DayLimitReached(g, rpd) == LimitSet(rpd) /\ g.request_count_day >= rpd[1]

MinuteLimitReachedOff(g, rpm) == LimitSet(rpm) /\ g.request_count_minute > rpm[1]

\* utils.py:60  request_count_minute >= rpm_limit
MinuteLimitReached(g, rpm) == LimitSet(rpm) /\ g.request_count_minute >= rpm[1]

\* utils.py:62-63  sleep_time = 60 - elapsed_time if elapsed_time < 60 else 0
MinuteSleepTime(ct, g) ==
    LET elapsed_time == ct - g.last_request_time
    IN  IF elapsed_time < MinuteWindow THEN MinuteWindow - elapsed_time ELSE 0

\* str.lower() on the model names of the model.
Lower(name) ==
    CASE name = "GEMINI-1.0-PRO" -> "gemini-1.0-pro"
      [] name = "models/GEMINI-1.0-PRO" -> "models/gemini-1.0-pro"
      [] OTHER -> name

\* analyzer.py:133  model_name if model_name.startswith("models/") else "models/" + model_name
ModelNameWithPrefix(name) ==
    CASE name = "GEMINI-1.0-PRO" -> "models/GEMINI-1.0-PRO"
      [] name = "" -> "models/"
      [] OTHER -> name

\* utils.py:72-77  model_delays.get(model_name.lower(), 0), in tenths of a second.
ModelDelayOf(name) ==
    IF name = "" THEN 0
    ELSE CASE Lower(name) = "gemini-1.0-pro" -> 5
           [] Lower(name) = "gemini-1.5-pro-latest" -> 7
           [] Lower(name) = "gemini-2.0-flash" -> 2
           [] OTHER -> 0

\* utils.py:39-49  the daily reset, then the minute-window reset.
GateEnter(g, t) ==
    LET g1 == IF DayOfMonth(t) # g.last_day_reset
              THEN [g EXCEPT !.request_count_day = 0, !.last_day_reset = DayOfMonth(t)]
              ELSE g
    IN  IF t - g1.last_request_time >= MinuteWindow
        THEN [g1 EXCEPT !.request_count_minute = 0, !.last_request_time = t]
        ELSE g1

\* utils.py:67-68  the reset that follows a reached minute limit.
GateMinuteReset(g, t) ==
    [g EXCEPT !.request_count_minute = 0, !.last_request_time = t]

\* utils.py:83-84
GateIncrement(g) ==
    [g EXCEPT !.request_count_minute = @ + 1, !.request_count_day = @ + 1]

\* One whole acquisition of a single sequential caller under a simulated clock
\* (every asyncio.sleep advances the clock by exactly its argument):
\* the gate and the clock when wait_for_rate_limit returns.
AcquireSeq(g, t, rpm, rpd, name) ==
    LET g1 == GateEnter(g, t)
        t1 == IF DayLimitReached(g1, rpd) THEN t + DailySleep ELSE t
        hit == MinuteLimitReached(g1, rpm)
        t2 == IF hit THEN t1 + MinuteSleepTime(t, g1) ELSE t1
        g2 == IF hit THEN GateMinuteReset(g1, t2) ELSE g1
        t3 == t2 + ModelDelayOf(name)
    IN  [gate |-> GateIncrement(g2), now |-> t3]

\* ------------------------------------------------------------------ text
\* A Python str is a sequence of one-character strings.
WhiteSpace == {" ", "\n"}

Digits == {"0", "1", "2", "3", "4", "5", "6", "7", "8", "9"}

RECURSIVE LStrip(_)
LStrip(s) == IF s # <<>> /\ Head(s) \in WhiteSpace THEN LStrip(Tail(s)) ELSE s

RECURSIVE RStrip(_)
RStrip(s) ==
    IF s # <<>> /\ s[Len(s)] \in WhiteSpace THEN RStrip(SubSeq(s, 1, Len(s) - 1)) ELSE s

\* str.strip()
Strip(s) == RStrip(LStrip(s))

\* str.startswith(p) / str.endswith(p)
StartsWith(s, p) == Len(s) >= Len(p) /\ SubSeq(s, 1, Len(p)) = p

EndsWith(s, p) == Len(s) >= Len(p) /\ SubSeq(s, Len(s) - Len(p) + 1, Len(s)) = p

\* s[n:] and s[:-n]
DropFirst(s, n) == SubSeq(s, n + 1, Len(s))

DropLast(s, n) == SubSeq(s, 1, Len(s) - n)

\* The grave accent U+0060 (the lexer of TLA+ takes none inside a string).
Backtick == "BACKTICK"

Fence == <<Backtick, Backtick, Backtick>>

FenceJson == Fence \o <<"j", "s", "o", "n">>

\* analyzer.py:290-294  the cleaning of the final text before json.loads.
CleanJsonString(text) ==
    LET s0 == Strip(text)
    IN  IF StartsWith(s0, FenceJson)
        THEN LET s1 == Strip(DropFirst(s0, 7))
             IN  IF EndsWith(s1, Fence) THEN Strip(DropLast(s1, 3)) ELSE s1
        ELSE s0

\* ------------------------------------------------------------- json.loads
\* Values: [t |-> "obj", v |-> <<<<key, value>>, ...>>], [t |-> "arr", v |-> <<value, ...>>],
\* [t |-> "str", v |-> chars], [t |-> "num", v |-> digits], [t |-> "null", v |-> <<>>].
ParseFail == [ok |-> FALSE, val |-> [t |-> "null", v |-> <<>>], pos |-> 0]

RECURSIVE SkipWs(_, _)
SkipWs(s, i) == IF i <= Len(s) /\ s[i] \in WhiteSpace THEN SkipWs(s, i + 1) ELSE i

\* The index of the next double quote at or after i (Len(s) + 1 when none).
RECURSIVE NextQuote(_, _)
NextQuote(s, i) == IF i <= Len(s) /\ s[i] # "\"" THEN NextQuote(s, i + 1) ELSE i

\* The index after the run of digits that starts at i.
RECURSIVE DigitsEnd(_, _)
DigitsEnd(s, i) == IF i <= Len(s) /\ s[i] \in Digits THEN DigitsEnd(s, i + 1) ELSE i

ParseString(s, i) ==
    IF i <= Len(s) /\ s[i] = "\"" /\ NextQuote(s, i + 1) <= Len(s)
    THEN [ok |-> TRUE, val |-> [t |-> "str", v |-> SubSeq(s, i + 1, NextQuote(s, i + 1) - 1)],
          pos |-> NextQuote(s, i + 1) + 1]
    ELSE ParseFail

\* A later pair of the same key replaces the earlier one, as in a Python dict.
PutPair(pairs, k, v) ==
    IF \E n \in 1..Len(pairs) : pairs[n][1] = k
    THEN [n \in 1..Len(pairs) |-> IF pairs[n][1] = k THEN <<k, v>> ELSE pairs[n]]
    ELSE Append(pairs, <<k, v>>)

RECURSIVE ParseValue(_, _), ParseMembers(_, _, _), ParseElements(_, _, _)
ParseValue(s, i0) ==
    LET i == SkipWs(s, i0)
    IN  IF i > Len(s) THEN ParseFail
        ELSE IF s[i] = "{"
             THEN LET k == SkipWs(s, i + 1)
                  IN  IF k <= Len(s) /\ s[k] = "}"
                      THEN [ok |-> TRUE, val |-> [t |-> "obj", v |-> <<>>], pos |-> k + 1]
                      ELSE ParseMembers(s, k, <<>>)
        ELSE IF s[i] = "["
             THEN LET k == SkipWs(s, i + 1)
                  IN  IF k <= Len(s) /\ s[k] = "]"
                      THEN [ok |-> TRUE, val |-> [t |-> "arr", v |-> <<>>], pos |-> k + 1]
                      ELSE ParseElements(s, k, <<>>)
        ELSE IF s[i] = "\"" THEN ParseString(s, i)
        ELSE IF s[i] \in Digits
             THEN [ok |-> TRUE, val |-> [t |-> "num", v |-> SubSeq(s, i, DigitsEnd(s, i) - 1)],
                   pos |-> DigitsEnd(s, i)]
        ELSE IF i + 3 <= Len(s) /\ SubSeq(s, i, i + 3) = <<"n", "u", "l", "l">>
             THEN [ok |-> TRUE, val |-> [t |-> "null", v |-> <<>>], pos |-> i + 4]
        ELSE ParseFail

ParseMembers(s, i, acc) ==
    LET key == ParseString(s, SkipWs(s, i))
        c == SkipWs(s, key.pos)
    IN  IF ~key.ok \/ c > Len(s) \/ s[c] # ":" THEN ParseFail
        ELSE LET val == ParseValue(s, c + 1)
                 e == SkipWs(s, val.pos)
             IN  IF ~val.ok \/ e > Len(s) THEN ParseFail
                 ELSE IF s[e] = ","
                      THEN ParseMembers(s, e + 1, PutPair(acc, key.val.v, val.val))
                 ELSE IF s[e] = "}"
                      THEN [ok |-> TRUE,
                            val |-> [t |-> "obj", v |-> PutPair(acc, key.val.v, val.val)],
                            pos |-> e + 1]
                 ELSE ParseFail

ParseElements(s, i, acc) ==
    LET val == ParseValue(s, i)
        e == SkipWs(s, val.pos)
    IN  IF ~val.ok \/ e > Len(s) THEN ParseFail
        ELSE IF s[e] = "," THEN ParseElements(s, e + 1, Append(acc, val.val))
        ELSE IF s[e] = "]"
             THEN [ok |-> TRUE, val |-> [t |-> "arr", v |-> Append(acc, val.val)], pos |-> e + 1]
        ELSE ParseFail

\* json.loads(s): the value, or a JSONDecodeError (ok = FALSE).
JsonLoads(s) ==
    LET r == ParseValue(s, 1)
    IN  IF r.ok /\ SkipWs(s, r.pos) > Len(s) THEN [ok |-> TRUE, val |-> r.val]
        ELSE [ok |-> FALSE, val |-> ParseFail.val]

\* json.dumps(x) for the values above, without the white space of indent=2;
\* a value of another type (a datetime, an ObjectId) is not serializable.
RECURSIVE JsonDumpsOk(_)
JsonDumpsOk(x) ==
    CASE x.t \in {"null", "str", "num"} -> TRUE
      [] x.t = "arr" -> \A n \in 1..Len(x.v) : JsonDumpsOk(x.v[n])
      [] x.t = "obj" -> \A n \in 1..Len(x.v) : JsonDumpsOk(x.v[n][2])
      [] OTHER -> FALSE

RECURSIVE JsonDumps(_), DumpElements(_, _), DumpMembers(_, _)
JsonDumps(x) ==
    CASE x.t = "null" -> <<"n", "u", "l", "l">>
      [] x.t = "num" -> x.v
      [] x.t = "str" -> <<"\"">> \o x.v \o <<"\"">>
      [] x.t = "arr" -> <<"[">> \o DumpElements(x.v, 1) \o <<"]">>
      [] x.t = "obj" -> <<"{">> \o DumpMembers(x.v, 1) \o <<"}">>

DumpElements(v, n) ==
    IF n > Len(v) THEN <<>>
    ELSE JsonDumps(v[n]) \o (IF n < Len(v) THEN <<",">> ELSE <<>>) \o DumpElements(v, n + 1)

DumpMembers(v, n) ==
    IF n > Len(v) THEN <<>>
    ELSE <<"\"">> \o v[n][1] \o <<"\"", ":">> \o JsonDumps(v[n][2])
         \o (IF n < Len(v) THEN <<",">> ELSE <<>>) \o DumpMembers(v, n + 1)

\* ------------------------------------------------------------ Python values
\* Every Python value of the batch is a record [t, v]; None is what
\* json.loads gives for null.
PyNone == [t |-> "null", v |-> <<>>]

Str(chars) == [t |-> "str", v |-> chars]

\* A string whose characters play no role is a single symbol.
Msg(m) == Str(<<m>>)

\* A dict built by the program: a function from its keys to Python values.
Dict(d) == [t |-> "dict", v |-> d]

\* isinstance(x, dict): a dict built by the program or a parsed JSON object.
IsDict(x) == x.t \in {"dict", "obj"}

\* The characters of the keys the orchestrator looks up.
KeyChars(key) ==
    CASE key = "error" -> <<"e", "r", "r", "o", "r">>
      [] key = "details" -> <<"d", "e", "t", "a", "i", "l", "s">>
      [] OTHER -> <<key>>

\* key in x
HasKey(x, key) ==
    IF x.t = "dict" THEN key \in DOMAIN x.v
    ELSE \E n \in 1..Len(x.v) : x.v[n][1] = KeyChars(key)

\* x.get(key, default)
Get(x, key, default) ==
    IF ~HasKey(x, key) THEN default
    ELSE IF x.t = "dict" THEN x.v[key]
    ELSE x.v[CHOOSE n \in 1..Len(x.v) : x.v[n][1] = KeyChars(key)][2]

\* "x and isinstance(x, str) and x.strip()" (orchestration.py:245, analyzer.py:198)
NonBlankStr(x) == x.t = "str" /\ Strip(x.v) # <<>>

\* The default 'N/A' of the lookups.
NA == Msg("N/A")

\* ------------------------------------------------------------- the AI turns
\* A reply of chat.send_message: an exception (with its text), or a response
\* with its block reason, finish reason ("" when absent) and text.
Resp(b, f, txt) == [raise |-> FALSE, detail |-> "", block |-> b, finish |-> f, text |-> txt]

Raised(d) == [raise |-> TRUE, detail |-> d, block |-> FALSE, finish |-> "", text |-> PyNone]

NoResp == Raised("")

TextDict == <<"{", "\"", "a", "\"", ":", "1", "}">>

TextFenced == FenceJson \o <<"\n">> \o TextDict \o <<"\n">> \o Fence

TextError == <<"{", "\"", "e", "r", "r", "o", "r", "\"", ":", "\"", "x", "\"", "}">>

TextList == <<"[", "1", "]">>

TextBad == <<"{", "\"", "a", "\"", ":">>

TextEmptyFence == FenceJson \o Fence

TextPartial == <<"{", "\"", "a">>

\* The replies to the initial prompt and to a data part.
TurnResponses ==
    { Resp(FALSE, "STOP", Str(<<"o", "k">>)), Resp(FALSE, "MAX_TOKENS", Str(<<>>)),
      Resp(TRUE, "", PyNone), Raised("429"), Raised("timeout") }

\* The replies to the final instruction.
FinalResponses ==
    { Resp(FALSE, "STOP", Str(txt)) :
        txt \in {TextDict, TextFenced, TextError, TextList, TextBad, TextEmptyFence, <<>>} }
    \cup { Resp(FALSE, "STOP", PyNone), Resp(FALSE, "", Str(TextDict)),
           Resp(FALSE, "MAX_TOKENS", Str(TextPartial)), Resp(FALSE, "MAX_TOKENS", Str(<<>>)),
           Resp(FALSE, "SAFETY", Str(TextPartial)),
           Resp(TRUE, "", PyNone), Raised("429"), Raised("timeout") }

\* analyzer.py:165-170  the error dict of a failed chats.create
ChatStartupFailed ==
    Dict([error |-> Msg("Failed to start Gemini chat session"),
          details |-> Msg("str(e)"),
          status |-> Msg("analysis_" \o task_type \o "_chat_startup_failed")])

TurnOutcomeOff(resp, turn) == IF resp.raise THEN ChatStartupFailed ELSE PyNone

\* analyzer.py:180-194 and 213-226: the error dict of a turn before the final
\* one, or PyNone when the conversation goes on (a finish reason other than
\* STOP is only logged).  turn is "initial_prompt" or "chunk"; the number of
\* the chunk, which the messages of lines 215-226 carry, is left out.
TurnOutcome(resp, turn) ==
    IF resp.raise
    THEN IF resp.detail = "429"
         THEN Dict([error |-> Msg("Rate limit hit on " \o turn),
                    details |-> Msg(resp.detail),
                    status |-> Msg("analysis_" \o task_type \o "_" \o turn \o "_rate_limited")])
         ELSE Dict([error |-> Msg("Failed to send " \o turn),
                    details |-> Msg(resp.detail),
                    status |-> Msg("analysis_" \o task_type \o "_" \o turn \o "_failed")])
    ELSE IF resp.block
         THEN Dict([error |-> Msg(turn \o " blocked by safety filters"),
                    block_reason |-> Msg("SAFETY"),
                    status |-> Msg("analysis_" \o task_type \o "_" \o turn \o "_blocked")])
    ELSE PyNone

\* response.text if hasattr(response, 'text') and response.text else 'N/A'
TextOrNA(resp) == IF resp.text.t = "str" /\ resp.text.v # <<>> THEN resp.text ELSE NA

FinalOutcomeOff(resp) ==
    IF ~resp.raise /\ resp.text.t = "str" /\ JsonLoads(CleanJsonString(resp.text.v)).ok
    THEN JsonLoads(CleanJsonString(resp.text.v)).val
    ELSE ChatStartupFailed

\* analyzer.py:244-330  what analyze_with_gemini returns after the final turn.
FinalOutcome(resp) ==
    IF resp.raise
    THEN IF resp.detail = "429"
         THEN Dict([error |-> Msg("Rate limit hit on final instruction"),
                    details |-> Msg(resp.detail),
                    status |-> Msg("analysis_" \o task_type \o "_final_rate_limited")])
         ELSE Dict([error |-> Msg("Gemini analysis API request failed"),
                    details |-> Msg(resp.detail),
                    status |-> Msg("analysis_" \o task_type \o "_api_request_failed")])
    ELSE IF resp.block
         THEN Dict([error |-> Msg("Final instruction blocked by safety filters"),
                    block_reason |-> Msg("SAFETY"),
                    status |-> Msg("analysis_" \o task_type \o "_final_prompt_blocked")])
    ELSE IF resp.finish = "MAX_TOKENS"
         THEN Dict([error |-> Msg("Gemini analysis incomplete: Maximum output tokens reached"),
                    raw_response |-> TextOrNA(resp),
                    finish_reason |-> Msg(resp.finish),
                    status |-> Msg("analysis_" \o task_type \o "_max_tokens")])
    ELSE IF resp.finish # "" /\ resp.finish # "STOP"
         THEN Dict([error |-> Msg("Gemini analysis incomplete or stopped due to finish reason"),
                    raw_response |-> TextOrNA(resp),
                    finish_reason |-> Msg(resp.finish),
                    status |-> Msg("analysis_" \o task_type \o "_non_stop_finish")])
    ELSE IF resp.text = PyNone
         THEN Dict([error |-> Msg("Received an unusual response format from Gemini"),
                    raw_response |-> Msg("response"),
                    status |-> Msg("analysis_" \o task_type \o "_unusual_response_format")])
    ELSE IF resp.text.v = <<>>
         THEN Dict([error |-> Msg("Gemini returned empty response text"),
                    status |-> Msg("analysis_" \o task_type \o "_empty_response")])
    ELSE IF CleanJsonString(resp.text.v) = <<>>
         THEN Dict([error |-> Msg("Gemini output was empty JSON markdown block"),
                    status |-> Msg("analysis_" \o task_type \o "_empty_json_block")])
    ELSE IF JsonLoads(CleanJsonString(resp.text.v)).ok
         THEN JsonLoads(CleanJsonString(resp.text.v)).val
    ELSE Dict([error |-> Msg("Failed to parse Gemini JSON output"),
               raw_output |-> resp.text,
               details |-> Msg("str(e)"),
               status |-> Msg("analysis_" \o task_type \o "_json_decode_error")])

\* analyzer.py:228-230  the error dict of an input that is no non-blank string.
NoInputData ==
    Dict([error |-> Msg("No valid string input data provided for analysis"),
          status |-> Msg("analysis_" \o task_type \o "_no_input_data")])

\* "x and isinstance(x, str)"
NonEmptyStr(x) == x.t = "str" /\ x.v # <<>>

\* "x and isinstance(x, dict)"
NonEmptyDict(x) == x.t = "obj" /\ x.v # <<>>

\* The prompts and the schema of a complete parameters document, for the task
\* of the run.
ValidParameters ==
    [initial_prompt |-> Str(<<"p">>), final_prompt |-> Str(<<"f">>),
     schema |-> [t |-> "obj", v |-> << << <<"a">>, Str(<<"s">>) >> >>]]

\* orchestration.py:122-164  the parameters the pre-match run accepts: both
\* prompts non-empty strings, the schema a non-empty dict, rpm and rpd numbers
\* that are not negative, the chunk size a positive integer, the model a
\* non-empty string.
ParametersValid ==
    /\ NonEmptyStr(db_parameters.initial_prompt)
    /\ NonEmptyStr(db_parameters.final_prompt)
    /\ NonEmptyDict(db_parameters.schema)
    /\ rpm_limit # None
    /\ rpd_limit # None
    /\ chunk_size_chars > 0
    /\ model_name # ""

\* analyzer.py:75-124  the error dict of a configuration the analyzer
\* rejects, or PyNone: the rate limits and the chunk size are not looked at.
ConfigOutcome ==
    IF ~NonEmptyStr(db_parameters.initial_prompt)
    THEN Dict([error |-> Msg("Missing initial prompt template"),
               status |-> Msg("analysis_" \o task_type \o "_config_missing_prompt")])
    ELSE IF ~(/\ NonEmptyStr(db_parameters.final_prompt)
              /\ NonEmptyDict(db_parameters.schema)
              /\ model_name # "")
    THEN Dict([error |-> Msg("Missing required analysis configuration parameters"),
               details |-> Msg("missing_details"),
               status |-> Msg("analysis_" \o task_type \o "_config_missing_params")])
    ELSE PyNone

\* analyzer.py:127  the chunk size when the parameter is no positive integer.
DefaultChunkSize == 100000

\* analyzer.py:127  (the parameter is an integer here; 0 stands for an invalid one)
effective_chunk_size(param) == IF param > 0 THEN param ELSE DefaultChunkSize

ChunksOff(s, size) ==
    [k \in 1..((Len(s) + size - 1) \div size) |->
        SubSeq(s, (k - 1) * size + 1, IF k * size < Len(s) THEN k * size ELSE Len(s) - 1)]

\* analyzer.py:201  input_data[i:i + size] for i in range(0, len(input_data), size)
Chunks(s, size) ==
    [k \in 1..((Len(s) + size - 1) \div size) |->
        SubSeq(s, (k - 1) * size + 1, IF k * size < Len(s) THEN k * size ELSE Len(s))]

ChunkMessageOff(k, total, chunk) ==
    [kind |-> "chunk", part |-> total - k + 1, of |-> total, body |-> chunk]

\* analyzer.py:205  "Data Part {i + 1}/{len(chunks)}:\n\n{chunk}"
ChunkMessage(k, total, chunk) == [kind |-> "chunk", part |-> k, of |-> total, body |-> chunk]

\* ---------------------------------------------------------------- the store
\* The fixtures a run may be given, in the scraper's order.
Match1 == [date |-> "01-01-2025", home_team |-> "A", away_team |-> "B",
           stats_link |-> Str(<<"u", "1">>)]

Match2 == [date |-> "01-01-2025", home_team |-> "C", away_team |-> "D",
           stats_link |-> Str(<<"u", "2">>)]

FixtureLists == {<<>>, <<Match1>>, <<Match1, Match2>>}

\* The markdown of a stats page.
StatsPage == <<"x", "y", "z">>

\* What the call of fetch_match_stats_markdown gives back: None on a failed
\* crawl, the markdown otherwise (scraper.py:171-215), or an exception (the
\* call of orchestration.py:242 passes a keyword task_type, which the
\* definition at scraper.py:171 does not declare).
FetchOutcomes ==
    { [raise |-> TRUE, val |-> PyNone] }
    \cup { [raise |-> FALSE, val |-> d] :
             d \in {PyNone, Str(<<>>), Str(<<" ">>), Str(StatsPage)} }

\* orchestration.py:218-222
existing_match_query(m) ==
    [date |-> m.date, home_team |-> m.home_team, away_team |-> m.away_team]

Matches(doc, query) == \A k \in DOMAIN query : doc[k] = query[k]

\* mongo_client.py:190-209  the first matching document; None when there is
\* none and None when the database raises.
find_one(coll, query, db_ok) ==
    IF db_ok /\ \E n \in 1..Len(coll) : Matches(coll[n], query)
    THEN [t |-> "doc",
          v |-> coll[CHOOSE n \in 1..Len(coll) :
                       /\ Matches(coll[n], query)
                       /\ \A k \in 1..(n - 1) : ~Matches(coll[k], query)]]
    ELSE PyNone

\* mongo_client.py:246-277  the collection after insert_one (unchanged when the
\* insertion fails); the new document gets a fresh id.
insert_one(coll, document, db_ok) ==
    IF db_ok THEN Append(coll, [document EXCEPT !.id = Len(coll) + 1]) ELSE coll

\* {"$set": update_data}: the named fields are overwritten, the others kept.
SetFields(doc, update_data) ==
    [k \in DOMAIN doc |-> IF k \in DOMAIN update_data THEN update_data[k] ELSE doc[k]]

\* mongo_client.py:280-329  the collection after update_one_by_id.
update_one_by_id(coll, doc_id, update_data, db_ok) ==
    IF db_ok
    THEN [n \in 1..Len(coll) |->
            IF coll[n].id = doc_id THEN SetFields(coll[n], update_data) ELSE coll[n]]
    ELSE coll

\* orchestration.py:197-212
match_document_base(m, t) ==
    [id |-> 0, date |-> m.date, home_team |-> m.home_team, away_team |-> m.away_team,
     stats_link |-> m.stats_link, predict_status |-> FALSE, post_match_analysis_status |-> FALSE,
     timestamp |-> t, predictions |-> PyNone, post_match_analysis |-> PyNone,
     error_details |-> PyNone, status |-> "pending_analysis",
     markdown_content |-> PyNone]

stats_fetch_error_data_off(t) ==
    [predict_status |-> FALSE, status |-> "pending_analysis",
     error_details |-> PyNone, markdown_content |-> PyNone, timestamp |-> t]

\* orchestration.py:251-257
stats_fetch_error_data(t) ==
    [predict_status |-> FALSE, status |-> "stats_fetch_failed",
     error_details |->
        Dict([analysis_outcome |-> Msg("Stats Fetch Failed"),
              details |-> Msg("Failed to fetch stats markdown or received empty markdown.")]),
     markdown_content |-> PyNone, timestamp |-> t]

\* orchestration.py:334-341
success_data(result, t) ==
    [predictions |-> result, predict_status |-> TRUE, status |-> "analysis_complete",
     error_details |-> PyNone, timestamp |-> t, markdown_content |-> PyNone]

failure_data_off(result, markdown, t) ==
    [predictions |-> Get(result, "raw_output", Get(result, "raw_response", NA)),
     predict_status |-> FALSE, status |-> "analysis_failed",
     error_details |-> PyNone, timestamp |-> t, markdown_content |-> PyNone]

\* orchestration.py:385-397
failure_data(result, markdown, t) ==
    [predictions |-> PyNone, predict_status |-> FALSE, status |-> "analysis_failed",
     error_details |->
        Dict([analysis_outcome |-> Get(result, "error", Msg("Unknown analysis error")),
              details |-> Get(result, "details", NA),
              raw_output |-> Get(result, "raw_output", Get(result, "raw_response", NA)),
              finish_reason |-> Get(result, "finish_reason", NA)]),
     timestamp |-> t, markdown_content |-> markdown]

\* orchestration.py:330  isinstance(analysis_result, dict) and "error" not in analysis_result
AnalysisSuccessful(result) == IsDict(result) /\ ~HasKey(result, "error")

match_e_failed_count_off(failed) == failed

\* orchestration.py:445-449  the handler of an unexpected error of one match
\* counts the match as failed; the loop goes on with the next match.
match_e_failed_count(failed) == failed + 1

\* The history of one item: the fixture, the store and the counters when its
\* processing began, what the fetch gave, the gate acquisitions, chat sessions
\* and messages made for it, the final reply, the store write and the way its
\* processing ended.
NoItem ==
    [match |-> Match1, path |-> "", before |-> <<>>, succ0 |-> 0, fail0 |-> 0,
     fetched |-> FALSE, fetch_val |-> PyNone, acqs |-> 0, sessions |-> 0, sends |-> <<>>,
     reply |-> NoResp, final |-> NoResp, write |-> "none", rec |-> 0]

\* The locals of a run that has not started (orchestration.py:171-183).
IdleRun ==
    [fixtures |-> <<>>, idx |-> 0, phase |-> "idle", existing_match |-> PyNone,
     stats_markdown |-> PyNone, analysis_result |-> PyNone, part |-> 0,
     successfully_processed_count |-> 0, failed_count |-> 0, run_status |-> "",
     cur |-> NoItem]

\* --------------------------------------------------------- history helpers
\* Acquisitions that returned in the last rolling 60 seconds before time t.
RollingCount(t) ==
    Cardinality({i \in 1..Len(log) : log[i].ret > t - MinuteWindow /\ log[i].ret <= t})

\* Acquisitions that returned on calendar date d.
DoneOnDate(d) == Cardinality({i \in 1..Len(log) : DateOf(log[i].ret) = d})

\* Acquisitions that returned inside the gate's current minute window.
DoneInWindow ==
    Cardinality({i \in 1..Len(log) :
        /\ log[i].ret >= gate.last_request_time
        /\ log[i].ret < gate.last_request_time + MinuteWindow})

Started == Len(log) + Cardinality({t \in Tasks : pc[t] # "idle"})

Sleeping == {t \in Tasks : pc[t] \in {"day_sleep", "minute_sleep", "delay_sleep"}}

NoAcq == [start |-> 0, rolling |-> 0, dayHit |-> FALSE, justReset |-> FALSE]

\* ------------------------------------------------------------------- Init
\* The process may be started at midnight or half an hour before it.
StartTimes == {0, DayLength - (DailySleep \div 2)}

\* No batch run: the values of the batch variables in the gate specifications.
BatchIdle ==
    /\ store = <<>>
    /\ fixtures = <<>>
    /\ idx = 0
    /\ phase = "idle"
    /\ existing_match = PyNone
    /\ stats_markdown = PyNone
    /\ analysis_result = PyNone
    /\ part = 0
    /\ successfully_processed_count = 0
    /\ failed_count = 0
    /\ items = 0
    /\ faults = 0
    /\ cur = NoItem
    /\ task_type = "pre_match"
    /\ chunk_size_chars = ChunkSize
    /\ db_parameters = ValidParameters
    /\ matches_to_analyze = <<>>
    /\ skipped_count = 0
    /\ run_status = ""
    /\ other = IdleRun

InitGateCommon ==
    /\ now \in StartTimes
    /\ gate = [request_count_minute |-> 0, last_request_time |-> now,
               request_count_day |-> 0, last_day_reset |-> DayOfMonth(now)]
    /\ rpm_limit \in Limits
    /\ rpd_limit \in Limits
    /\ model_name \in ModelNames
    /\ pc = [t \in Tasks |-> "idle"]
    /\ current_time = [t \in Tasks |-> 0]
    /\ wake = [t \in Tasks |-> 0]
    /\ running = 0
    /\ acq = [t \in Tasks |-> NoAcq]
    /\ log = <<>>
    /\ advances = 0
    /\ BatchIdle

\* One batch run: a single sequential caller of the gate.
InitGate == InitGateCommon /\ callers = {1}

\* Two batch runs started in the same process (routes.py: two background tasks).
InitConc == InitGateCommon /\ callers = Tasks

\* ---------------------------------------------------------------- actions
cfgVars == <<rpm_limit, rpd_limit, model_name, callers>>

\* A task calls wait_for_rate_limit (the call itself; line 34).
Call(t) ==
    /\ t \in callers /\ pc[t] = "idle" /\ running = 0
    /\ Started < MaxAcq
    /\ pc' = [pc EXCEPT ![t] = "enter"]
    /\ running' = t
    /\ acq' = [acq EXCEPT ![t] = [start |-> now, rolling |-> RollingCount(now),
                                  dayHit |-> FALSE, justReset |-> FALSE]]
    /\ UNCHANGED <<batchVars, gate, now, cfgVars, current_time, wake, log, advances>>

\* Lines 36-49: read the clock, daily reset, minute-window reset.
Enter(t) ==
    /\ running = t /\ pc[t] = "enter"
    /\ current_time' = [current_time EXCEPT ![t] = now]
    /\ gate' = GateEnter(gate, now)
    /\ pc' = [pc EXCEPT ![t] = "day_check"]
    /\ acq' = [acq EXCEPT ![t].justReset = (now - gate.last_request_time >= MinuteWindow)]
    /\ UNCHANGED <<batchVars, now, cfgVars, wake, running, log, advances>>

\* Lines 52-57: the daily limit; await asyncio.sleep(3600) when it is reached.
DayCheck(t) ==
    /\ running = t /\ pc[t] = "day_check"
    /\ IF DayLimitReached(gate, rpd_limit)
       THEN /\ pc' = [pc EXCEPT ![t] = "day_sleep"]
            /\ wake' = [wake EXCEPT ![t] = now + DailySleep]
            /\ running' = 0
       ELSE /\ pc' = [pc EXCEPT ![t] = "minute_check"]
            /\ UNCHANGED <<wake, running>>
    /\ acq' = [acq EXCEPT ![t].justReset = FALSE,
                          ![t].dayHit = DayLimitReached(gate, rpd_limit)]
    /\ UNCHANGED <<batchVars, gate, now, cfgVars, current_time, log, advances>>

\* The sleep of line 57 is over.
DayWake(t) ==
    /\ running = 0 /\ pc[t] = "day_sleep" /\ now >= wake[t]
    /\ pc' = [pc EXCEPT ![t] = "minute_check"]
    /\ running' = t
    /\ acq' = [acq EXCEPT ![t].justReset = FALSE]
    /\ UNCHANGED <<batchVars, gate, now, cfgVars, current_time, wake, log, advances>>

\* Lines 59-66: the minute limit; await asyncio.sleep(sleep_time) when positive.
MinuteCheck(t) ==
    /\ running = t /\ pc[t] = "minute_check"
    /\ IF MinuteLimitReached(gate, rpm_limit)
       THEN IF MinuteSleepTime(current_time[t], gate) > 0
            THEN /\ pc' = [pc EXCEPT ![t] = "minute_sleep"]
                 /\ wake' = [wake EXCEPT ![t] = now + MinuteSleepTime(current_time[t], gate)]
                 /\ running' = 0
            ELSE /\ pc' = [pc EXCEPT ![t] = "minute_reset"]
                 /\ UNCHANGED <<wake, running>>
       ELSE /\ pc' = [pc EXCEPT ![t] = "model_delay"]
            /\ UNCHANGED <<wake, running>>
    /\ acq' = [acq EXCEPT ![t].justReset = FALSE]
    /\ UNCHANGED <<batchVars, gate, now, cfgVars, current_time, log, advances>>

\* The sleep of line 66 is over.
MinuteWake(t) ==
    /\ running = 0 /\ pc[t] = "minute_sleep" /\ now >= wake[t]
    /\ pc' = [pc EXCEPT ![t] = "minute_reset"]
    /\ running' = t
    /\ acq' = [acq EXCEPT ![t].justReset = FALSE]
    /\ UNCHANGED <<batchVars, gate, now, cfgVars, current_time, wake, log, advances>>

\* Lines 67-68: request_count_minute = 0; last_request_time = time.time().
MinuteReset(t) ==
    /\ running = t /\ pc[t] = "minute_reset"
    /\ gate' = GateMinuteReset(gate, now)
    /\ pc' = [pc EXCEPT ![t] = "model_delay"]
    /\ acq' = [acq EXCEPT ![t].justReset = TRUE]
    /\ UNCHANGED <<batchVars, now, cfgVars, current_time, wake, running, log, advances>>

\* Lines 71-80: the fixed delay of the model; await asyncio.sleep(delay) when positive.
ModelDelay(t) ==
    /\ running = t /\ pc[t] = "model_delay"
    /\ IF ModelDelayOf(model_name) > 0
       THEN /\ pc' = [pc EXCEPT ![t] = "delay_sleep"]
            /\ wake' = [wake EXCEPT ![t] = now + ModelDelayOf(model_name)]
            /\ running' = 0
       ELSE /\ pc' = [pc EXCEPT ![t] = "increment"]
            /\ UNCHANGED <<wake, running>>
    /\ acq' = [acq EXCEPT ![t].justReset = FALSE]
    /\ UNCHANGED <<batchVars, gate, now, cfgVars, current_time, log, advances>>

\* The sleep of line 80 is over.
DelayWake(t) ==
    /\ running = 0 /\ pc[t] = "delay_sleep" /\ now >= wake[t]
    /\ pc' = [pc EXCEPT ![t] = "increment"]
    /\ running' = t
    /\ acq' = [acq EXCEPT ![t].justReset = FALSE]
    /\ UNCHANGED <<batchVars, gate, now, cfgVars, current_time, wake, log, advances>>

\* Lines 83-84: both counters are incremented and the call returns.
Increment(t) ==
    /\ running = t /\ pc[t] = "increment"
    /\ gate' = GateIncrement(gate)
    /\ pc' = [pc EXCEPT ![t] = "idle"]
    /\ running' = 0
    /\ log' = Append(log, [task |-> t, start |-> acq[t].start, ret |-> now,
                           rolling |-> acq[t].rolling, dayHit |-> acq[t].dayHit,
                           count |-> gate.request_count_minute + 1])
    /\ acq' = [acq EXCEPT ![t] = NoAcq]
    /\ UNCHANGED <<batchVars, now, cfgVars, current_time, wake, advances>>

\* The delays the environment may put between two steps of the callers.
Delays == {MinuteWindow \div 2, MinuteWindow, DayLength}

NextWake == CHOOSE w \in {wake[t] : t \in Sleeping} : \A t \in Sleeping : w <= wake[t]

\* Time passes while no task runs; it never passes the end of a pending sleep.
Advance(d) ==
    /\ running = 0 /\ advances < MaxAdvance
    /\ Sleeping # {} => now + d <= NextWake
    /\ now' = now + d
    /\ advances' = advances + 1
    /\ UNCHANGED <<batchVars, gate, cfgVars, pc, current_time, wake, running, acq, log>>

\* The simulated clock jumps to the end of the earliest pending sleep.
WakeJump ==
    /\ running = 0 /\ Sleeping # {} /\ now < NextWake
    /\ now' = NextWake
    /\ UNCHANGED <<batchVars, gate, cfgVars, pc, current_time, wake, running, acq, log, advances>>

NextGate ==
    \/ \E t \in Tasks : Call(t)
    \/ \E t \in Tasks : Enter(t)
    \/ \E t \in Tasks : DayCheck(t)
    \/ \E t \in Tasks : DayWake(t)
    \/ \E t \in Tasks : MinuteCheck(t)
    \/ \E t \in Tasks : MinuteWake(t)
    \/ \E t \in Tasks : MinuteReset(t)
    \/ \E t \in Tasks : ModelDelay(t)
    \/ \E t \in Tasks : DelayWake(t)
    \/ \E t \in Tasks : Increment(t)
    \/ \E d \in Delays : Advance(d)
    \/ WakeJump

\* The gate under one sequential caller.
SpecGate == InitGate /\ [][NextGate]_vars

\* The gate under two concurrent callers.
SpecConc == InitConc /\ [][NextGate]_vars

\* ------------------------------------------------------- the batch: actions
gateOnly == <<cfgVars, pc, current_time, wake, running, acq, log, advances>>

\* What a pre-match run leaves alone: the configuration of the analyzer and
\* the variables of the post-match run.
postOnly == <<matches_to_analyze, skipped_count, run_status>>

convOnly == <<task_type, chunk_size_chars, db_parameters, other>>

\* A process that runs pre-match batches one after the other over an empty
\* predictions collection, with a valid configuration (orchestration.py:109-164).
InitBatch ==
    /\ now = 0
    /\ gate = [request_count_minute |-> 0, last_request_time |-> now,
               request_count_day |-> 0, last_day_reset |-> DayOfMonth(now)]
    /\ rpm_limit = <<MaxLimit>>
    /\ rpd_limit = <<0>>
    /\ model_name = "GEMINI-1.0-PRO"
    /\ callers = {1}
    /\ pc = [t \in Tasks |-> "idle"]
    /\ current_time = [t \in Tasks |-> 0]
    /\ wake = [t \in Tasks |-> 0]
    /\ running = 0
    /\ acq = [t \in Tasks |-> NoAcq]
    /\ log = <<>>
    /\ advances = 0
    /\ BatchIdle

AcquireOff == [gate |-> gate, now |-> now]

\* The gate and the clock after one acquisition of the conversation
\* (analyzer.py:175, 207, 235).
Acquire == AcquireSeq(gate, now, rpm_limit, rpd_limit, ModelNameWithPrefix(model_name))

\* The item is over without the delay of lines 437-442 (the handler of line 445).
LastItem == idx >= Len(fixtures) - 1

\* orchestration.py:109-183  a run starts: with parameters that are not valid
\* it returns at once ("failed_config_parameters"); otherwise the fixtures are
\* fetched, and a run without fixtures returns at once ("completed_no_fixtures").
StartRun(fx) ==
    /\ task_type = "pre_match"
    /\ phase = "idle" /\ items + Len(fx) <= MaxItems
    /\ IF ~ParametersValid
       THEN /\ run_status' = "failed_config_parameters"
            /\ UNCHANGED <<items, fixtures, idx, cur, phase,
                           successfully_processed_count, failed_count>>
       ELSE /\ items' = items + Len(fx)
            /\ fixtures' = fx
            /\ idx' = 0
            /\ cur' = NoItem
            /\ IF fx = <<>>
               THEN /\ run_status' = "completed_no_fixtures"
                    /\ UNCHANGED <<phase, successfully_processed_count, failed_count>>
               ELSE /\ run_status' = ""
                    /\ phase' = "lookup"
                    /\ successfully_processed_count' = 0
                    /\ failed_count' = 0
    /\ UNCHANGED <<gate, now, gateOnly, convOnly, matches_to_analyze, skipped_count, store,
                   existing_match, stats_markdown, analysis_result, part, faults>>

\* orchestration.py:186-235  the base document, the lookup of the existing
\* record and the skip of an item whose prediction is complete.
Lookup(db_ok) ==
    /\ phase = "lookup"
    /\ db_ok \/ faults < MaxFaults
    /\ faults' = IF db_ok THEN faults ELSE faults + 1
    /\ LET m == fixtures[idx + 1]
           found == find_one(store, existing_match_query(m), db_ok)
           item == [NoItem EXCEPT !.match = m, !.before = store,
                                  !.succ0 = successfully_processed_count,
                                  !.fail0 = failed_count]
       IN  /\ existing_match' = found
           /\ IF found # PyNone /\ found.v.predict_status = TRUE
              THEN /\ successfully_processed_count' = successfully_processed_count + 1
                   /\ phase' = "delay"
                   /\ cur' = [item EXCEPT !.path = "skipped"]
              ELSE /\ phase' = "fetch"
                   /\ cur' = item
                   /\ UNCHANGED successfully_processed_count
    /\ stats_markdown' = PyNone
    /\ analysis_result' = PyNone
    /\ part' = 0
    /\ UNCHANGED <<gate, now, gateOnly, convOnly, postOnly, store, fixtures, idx, failed_count, items>>

\* orchestration.py:242-248 and 445-449  the fetch of the stats page; an
\* exception of the call ends the item in the handler of line 445.
Fetch(r) ==
    /\ phase = "fetch"
    /\ IF r.raise
       THEN /\ failed_count' = match_e_failed_count(failed_count)
            /\ phase' = IF LastItem THEN "idle" ELSE "lookup"
            /\ idx' = IF LastItem THEN idx ELSE idx + 1
            /\ cur' = [cur EXCEPT !.path = "exception"]
            /\ UNCHANGED stats_markdown
       ELSE /\ stats_markdown' = r.val
            /\ phase' = IF NonBlankStr(r.val) THEN "chat_create" ELSE "fetch_failed"
            /\ cur' = [cur EXCEPT !.fetched = TRUE, !.fetch_val = r.val]
            /\ UNCHANGED <<failed_count, idx>>
    /\ UNCHANGED <<gate, now, gateOnly, convOnly, postOnly, store, fixtures, existing_match,
                   analysis_result, part, successfully_processed_count, items, faults>>

\* orchestration.py:249-289  the record of a failed fetch: the existing
\* document is updated, or a new one is inserted.
RecordFetchFailure(db_ok) ==
    /\ phase = "fetch_failed"
    /\ db_ok \/ faults < MaxFaults
    /\ faults' = IF db_ok THEN faults ELSE faults + 1
    /\ store' = IF existing_match # PyNone
                THEN update_one_by_id(store, existing_match.v.id,
                                      stats_fetch_error_data(now), db_ok)
                ELSE insert_one(store,
                                SetFields(match_document_base(cur.match, now),
                                          stats_fetch_error_data(now)), db_ok)
    /\ failed_count' = failed_count + 1
    /\ phase' = "delay"
    /\ cur' = [cur EXCEPT !.path = "fetch_failed",
                          !.write = IF db_ok THEN "ok" ELSE "failed",
                          !.rec = IF existing_match # PyNone THEN existing_match.v.id
                                  ELSE IF db_ok THEN Len(store) + 1 ELSE 0]
    /\ UNCHANGED <<gate, now, gateOnly, convOnly, postOnly, fixtures, idx, existing_match, stats_markdown,
                   analysis_result, part, successfully_processed_count, items>>

\* analyzer.py:39-170  the configuration is read and the chat session created;
\* a configuration the analyzer rejects and a chats.create that raises end the
\* conversation with an error dict.
ChatCreate(created) ==
    /\ phase = "chat_create"
    /\ IF ConfigOutcome # PyNone
       THEN /\ phase' = "save"
            /\ analysis_result' = ConfigOutcome
            /\ UNCHANGED cur
       ELSE IF created
       THEN /\ phase' = "send_initial"
            /\ cur' = [cur EXCEPT !.sessions = @ + 1]
            /\ UNCHANGED analysis_result
       ELSE /\ phase' = "save"
            /\ analysis_result' = ChatStartupFailed
            /\ UNCHANGED cur
    /\ UNCHANGED <<gate, now, gateOnly, convOnly, postOnly, store, fixtures, idx, existing_match,
                   stats_markdown, part, successfully_processed_count, failed_count,
                   items, faults>>

\* analyzer.py:173-194 and 228-230  one acquisition, then the initial prompt.
SendInitial(resp) ==
    /\ phase = "send_initial"
    /\ gate' = Acquire.gate
    /\ now' = Acquire.now
    /\ cur' = [cur EXCEPT !.acqs = @ + 1, !.reply = resp,
                          !.sends = Append(@, [kind |-> "initial", part |-> 0, of |-> 0,
                                               body |-> <<>>])]
    /\ part' = 0
    /\ IF TurnOutcome(resp, "initial_prompt") # PyNone
       THEN /\ analysis_result' = TurnOutcome(resp, "initial_prompt")
            /\ phase' = "save"
       ELSE IF NonBlankStr(stats_markdown)
            THEN /\ phase' = "send_chunk"
                 /\ UNCHANGED analysis_result
            ELSE /\ analysis_result' = NoInputData
                 /\ phase' = "save"
    /\ UNCHANGED <<gateOnly, convOnly, postOnly, store, fixtures, idx, existing_match, stats_markdown,
                   successfully_processed_count, failed_count, items, faults>>

\* analyzer.py:204-226  one acquisition, then one data part.
SendChunk(resp) ==
    /\ phase = "send_chunk"
    /\ LET chunks == Chunks(stats_markdown.v, effective_chunk_size(chunk_size_chars))
       IN  /\ cur' = [cur EXCEPT !.acqs = @ + 1, !.reply = resp,
                         !.sends = Append(@, ChunkMessage(part + 1, Len(chunks),
                                                          chunks[part + 1]))]
           /\ IF TurnOutcome(resp, "chunk") # PyNone
              THEN /\ analysis_result' = TurnOutcome(resp, "chunk")
                   /\ phase' = "save"
              ELSE /\ phase' = IF part + 1 < Len(chunks) THEN "send_chunk" ELSE "send_final"
                   /\ UNCHANGED analysis_result
    /\ gate' = Acquire.gate
    /\ now' = Acquire.now
    /\ part' = part + 1
    /\ UNCHANGED <<gateOnly, convOnly, postOnly, store, fixtures, idx, existing_match, stats_markdown,
                   successfully_processed_count, failed_count, items, faults>>

\* analyzer.py:233-330  one acquisition, then the final instruction; the reply
\* is turned into the result of analyze_with_gemini.
SendFinal(resp) ==
    /\ phase = "send_final"
    /\ gate' = Acquire.gate
    /\ now' = Acquire.now
    /\ cur' = [cur EXCEPT !.acqs = @ + 1, !.reply = resp, !.final = resp,
                          !.sends = Append(@, [kind |-> "final", part |-> 0, of |-> 0,
                                               body |-> <<>>])]
    /\ analysis_result' = FinalOutcome(resp)
    /\ phase' = "save"
    /\ UNCHANGED <<gateOnly, convOnly, postOnly, store, fixtures, idx, existing_match, stats_markdown,
                   part, successfully_processed_count, failed_count, items, faults>>

\* The data written for the result (orchestration.py:330-397).
ResultData == IF AnalysisSuccessful(analysis_result)
              THEN success_data(analysis_result, now)
              ELSE failure_data(analysis_result, stats_markdown, now)

\* orchestration.py:330-431 and 445-449  the result is saved: the existing
\* document is updated or a new one inserted.  A result that is neither
\* successful nor a dict has no get: the AttributeError of lines 390-393 ends
\* the item in the handler of line 445.
Save(db_ok) ==
    /\ task_type = "pre_match"
    /\ phase = "save"
    /\ IF ~AnalysisSuccessful(analysis_result) /\ ~IsDict(analysis_result)
       THEN /\ db_ok
            /\ failed_count' = match_e_failed_count(failed_count)
            /\ phase' = IF LastItem THEN "idle" ELSE "lookup"
            /\ idx' = IF LastItem THEN idx ELSE idx + 1
            /\ cur' = [cur EXCEPT !.path = "exception"]
            /\ UNCHANGED <<store, faults, successfully_processed_count>>
       ELSE /\ db_ok \/ faults < MaxFaults
            /\ faults' = IF db_ok THEN faults ELSE faults + 1
            /\ store' = IF existing_match # PyNone
                        THEN update_one_by_id(store, existing_match.v.id, ResultData, db_ok)
                        ELSE insert_one(store,
                                        SetFields(match_document_base(cur.match, now),
                                                  ResultData), db_ok)
            /\ IF AnalysisSuccessful(analysis_result) /\ (db_ok \/ existing_match = PyNone)
               THEN /\ successfully_processed_count' = successfully_processed_count + 1
                    /\ UNCHANGED failed_count
               ELSE /\ failed_count' = failed_count + 1
                    /\ UNCHANGED successfully_processed_count
            /\ phase' = "delay"
            /\ cur' = [cur EXCEPT
                         !.path = IF AnalysisSuccessful(analysis_result)
                                  THEN "complete" ELSE "failed",
                         !.write = IF db_ok THEN "ok" ELSE "failed",
                         !.rec = IF existing_match # PyNone THEN existing_match.v.id
                                 ELSE IF db_ok THEN Len(store) + 1 ELSE 0]
            /\ UNCHANGED idx
    /\ UNCHANGED <<gate, now, gateOnly, convOnly, postOnly, fixtures, existing_match, stats_markdown,
                   analysis_result, part, items>>

\* orchestration.py:229-235, 291-297, 437-442  await asyncio.sleep(delay) unless
\* the item is the last one; then the next item, or the end of the run.
Delay ==
    /\ phase = "delay"
    /\ IF LastItem
       THEN /\ phase' = "idle"
            /\ UNCHANGED <<now, idx>>
       ELSE /\ phase' = "lookup"
            /\ now' = now + DelayBetweenMatches
            /\ idx' = idx + 1
    /\ UNCHANGED <<gate, gateOnly, convOnly, postOnly, store, fixtures, existing_match, stats_markdown,
                   analysis_result, part, successfully_processed_count, failed_count,
                   items, faults, cur>>

NextBatch ==
    \/ \E fx \in FixtureLists : StartRun(fx)
    \/ \E db_ok \in BOOLEAN : Lookup(db_ok)
    \/ \E r \in FetchOutcomes : Fetch(r)
    \/ \E db_ok \in BOOLEAN : RecordFetchFailure(db_ok)
    \/ \E created \in BOOLEAN : ChatCreate(created)
    \/ \E resp \in TurnResponses : SendInitial(resp)
    \/ \E resp \in TurnResponses : SendChunk(resp)
    \/ \E resp \in FinalResponses : SendFinal(resp)
    \/ \E db_ok \in BOOLEAN : Save(db_ok)
    \/ Delay

\* Pre-match batch runs, one after the other, in one process.
SpecBatch == InitBatch /\ [][NextBatch]_vars

\* ------------------------------------------------- the post-match run
\* target_date_str of the run.
TargetDate == "01-01-2025"

\* db_parameters["chunk_size_chars"] of the post-match specification.
PostChunkSize == 8

\* A selection that does not look at the post-match fields.
post_match_query_off(d) == [date |-> d, predict_status |-> TRUE]

\* orchestration.py:490-495
post_match_query(d) ==
    [date |-> d, predict_status |-> TRUE, post_match_analysis_status |-> FALSE,
     post_match_analysis |-> PyNone]

\* mongo_client.py:210-241  the matching documents in the order of the
\* collection; the empty list when the database raises.
find_many(coll, query, db_ok) ==
    IF db_ok THEN SelectSeq(coll, LAMBDA d : Matches(d, query)) ELSE <<>>

\* "not stats_link or not isinstance(stats_link, str)" (orchestration.py:563)
NoStatsLink(doc) == ~(doc.stats_link.t = "str" /\ doc.stats_link.v # <<>>)

\* orchestration.py:582
NoPredictions(doc) == doc.predictions = PyNone \/ ~IsDict(doc.predictions)

\* orchestration.py:567-572
skipped_no_link_data(t) ==
    [post_match_analysis_status |-> FALSE, status |-> "post_analysis_skipped_no_link",
     error_details |->
        Dict([analysis_outcome |-> Msg("Post-Match Skipped"),
              details |-> Msg("Stats link missing or invalid in DB document.")]),
     timestamp |-> t]

\* orchestration.py:586-591
skipped_no_predictions_data(t) ==
    [post_match_analysis_status |-> FALSE, status |-> "post_analysis_skipped_no_predictions",
     error_details |->
        Dict([analysis_outcome |-> Msg("Post-Match Skipped"),
              details |-> Msg("Original predictions JSON missing or invalid in DB document.")]),
     timestamp |-> t]

\* orchestration.py:617-622
post_fetch_failed_data(t) ==
    [post_match_analysis_status |-> FALSE, status |-> "post_analysis_fetch_failed",
     error_details |->
        Dict([analysis_outcome |-> Msg("Post-Match Fetch Failed"),
              details |-> Msg("Failed to fetch post-match results markdown from stats link.")]),
     timestamp |-> t]

\* orchestration.py:651-656
input_failed_data(t) ==
    [post_match_analysis_status |-> FALSE, status |-> "post_analysis_input_failed",
     error_details |->
        Dict([analysis_outcome |-> Msg("Post-Match Input Prep Failed"),
              details |-> Msg("Error combining input data")]),
     timestamp |-> t]

\* orchestration.py:643  the predictions as JSON, then the markdown, each
\* under its header.
combined_input_string(predictions, markdown) ==
    <<"PRE-MATCH PREDICTIONS:\n">> \o JsonDumps(predictions)
        \o <<"\n\nPOST-MATCH STATS:\n\n">> \o markdown

\* An update that also resets the pre-match result of the document.
post_update_data_off(result, t) ==
    [predictions |-> PyNone, predict_status |-> FALSE,
     post_match_analysis |-> PyNone, post_match_analysis_status |-> FALSE,
     status |-> "post_analysis_failed", timestamp |-> t]

\* orchestration.py:691-727  the update of a result.
post_update_data(result, t) ==
    IF AnalysisSuccessful(result)
    THEN [post_match_analysis |-> result, post_match_analysis_status |-> TRUE,
          status |-> "post_analysis_complete", error_details |-> PyNone, timestamp |-> t]
    ELSE [post_match_analysis |-> PyNone, post_match_analysis_status |-> FALSE,
          status |-> IF result.t = "dict" /\ HasKey(result, "status")
                     THEN result.v.status.v[1] ELSE "post_analysis_failed",
          error_details |->
             IF IsDict(result)
             THEN Dict([analysis_outcome |->
                            Get(result, "error", Msg("Unknown post-match analysis error")),
                        details |-> Get(result, "details",
                            Msg("Analyzer returned unexpected result or had an internal error.")),
                        raw_output |-> Get(result, "raw_output",
                                           Get(result, "raw_response", NA)),
                        finish_reason |-> Get(result, "finish_reason", NA),
                        block_reason |-> Get(result, "block_reason", NA)])
             ELSE Dict([analysis_outcome |-> Msg("Unknown post-match analysis error"),
                        details |->
                            Msg("Analyzer returned unexpected result or had an internal error."),
                        raw_output |-> NA, finish_reason |-> NA, block_reason |-> NA]),
          timestamp |-> t]

\* A record of the collection whose pre-match prediction is complete.
Predicted(m, n) ==
    [SetFields(match_document_base(m, 0), success_data(JsonLoads(TextDict).val, 0))
        EXCEPT !.id = n]

\* The collection a post-match run may find: records the pre-match runs
\* completed or left incomplete, and records written by other hands (no
\* stats link, no predictions, predictions holding a datetime).
PostStores ==
    LET first == { Predicted(Match1, 1),
                   [Predicted(Match1, 1) EXCEPT !.stats_link = PyNone],
                   [Predicted(Match1, 1) EXCEPT !.predictions = PyNone],
                   [Predicted(Match1, 1) EXCEPT
                       !.predictions = [t |-> "obj",
                                        v |-> << << <<"d">>, [t |-> "datetime", v |-> <<>>] >> >>]] }
        second == { Predicted(Match2, 2),
                    [match_document_base(Match2, 0) EXCEPT
                        !.id = 2, !.status = "stats_fetch_failed"] }
    IN  {<<>>} \cup { <<a>> : a \in first } \cup { <<a, b>> : a \in first, b \in second }

\* A process that runs post-match batches one after the other.
InitPost ==
    /\ now = 0
    /\ gate = [request_count_minute |-> 0, last_request_time |-> now,
               request_count_day |-> 0, last_day_reset |-> DayOfMonth(now)]
    /\ rpm_limit = <<MaxLimit>>
    /\ rpd_limit = <<0>>
    /\ model_name = "GEMINI-1.0-PRO"
    /\ callers = {1}
    /\ pc = [t \in Tasks |-> "idle"]
    /\ current_time = [t \in Tasks |-> 0]
    /\ wake = [t \in Tasks |-> 0]
    /\ running = 0
    /\ acq = [t \in Tasks |-> NoAcq]
    /\ log = <<>>
    /\ advances = 0
    /\ store \in PostStores
    /\ fixtures = <<>>
    /\ idx = 0
    /\ phase = "idle"
    /\ existing_match = PyNone
    /\ stats_markdown = PyNone
    /\ analysis_result = PyNone
    /\ part = 0
    /\ successfully_processed_count = 0
    /\ failed_count = 0
    /\ items = 0
    /\ faults = 0
    /\ cur = NoItem
    /\ task_type = "post_match"
    /\ chunk_size_chars = PostChunkSize
    /\ db_parameters = ValidParameters
    /\ matches_to_analyze = <<>>
    /\ skipped_count = 0
    /\ run_status = ""
    /\ other = IdleRun

preOnly == <<fixtures, existing_match>>

\* A loop that is over one match too early.
LastMatchOff == idx >= Len(matches_to_analyze) - 2

\* The last match of the list: the loop is over after it.
LastMatch == idx >= Len(matches_to_analyze) - 1

\* orchestration.py:487-535  a run starts: the matches are selected; a run
\* that selects none returns at once.
StartPost(db_ok) ==
    /\ task_type = "post_match"
    /\ phase = "idle"
    /\ db_ok \/ faults < MaxFaults
    /\ faults' = IF db_ok THEN faults ELSE faults + 1
    /\ LET selected == find_many(store, post_match_query(TargetDate), db_ok)
       IN  /\ items + Len(selected) <= MaxItems
           /\ items' = items + Len(selected)
           /\ matches_to_analyze' = selected
           /\ IF selected = <<>>
              THEN /\ run_status' = "completed_no_matches"
                   /\ UNCHANGED <<phase, successfully_processed_count, failed_count,
                                  skipped_count>>
              ELSE /\ run_status' = ""
                   /\ phase' = "p_check"
                   /\ successfully_processed_count' = 0
                   /\ failed_count' = 0
                   /\ skipped_count' = 0
    /\ idx' = 0
    /\ cur' = NoItem
    /\ UNCHANGED <<gate, now, gateOnly, convOnly, preOnly, store, stats_markdown,
                   analysis_result, part>>

\* The loop of line 538 goes to the next match without the delay of lines
\* 766-768 (the "continue" of lines 579, 598, 631, 664), or is over.
Continue ==
    IF LastMatch
    THEN /\ phase' = "idle"
         /\ run_status' = "completed"
         /\ UNCHANGED idx
    ELSE /\ phase' = "p_check"
         /\ idx' = idx + 1
         /\ UNCHANGED run_status

\* The history of the write of update_data to the document of the match.
Written(item, pathname, db_ok) ==
    [item EXCEPT !.path = pathname, !.write = IF db_ok THEN "ok" ELSE "failed"]

\* orchestration.py:538-606  the fields of the selected document are read and
\* validated; a document without a stats link or without predictions is
\* skipped with a status of its own.  (Every document of the model has an _id.)
PostCheck(db_ok) ==
    /\ phase = "p_check"
    /\ LET doc == matches_to_analyze[idx + 1]
           item == [NoItem EXCEPT !.match = existing_match_query(doc) @@
                                            [stats_link |-> doc.stats_link],
                                  !.before = store, !.rec = doc.id,
                                  !.succ0 = successfully_processed_count,
                                  !.fail0 = failed_count]
       IN  IF NoStatsLink(doc) \/ NoPredictions(doc)
           THEN /\ db_ok \/ faults < MaxFaults
                /\ faults' = IF db_ok THEN faults ELSE faults + 1
                /\ skipped_count' = skipped_count + 1
                /\ store' = update_one_by_id(store, doc.id,
                                IF NoStatsLink(doc) THEN skipped_no_link_data(now)
                                ELSE skipped_no_predictions_data(now), db_ok)
                /\ cur' = Written(item, "skipped", db_ok)
                /\ Continue
           ELSE /\ db_ok
                /\ phase' = "p_fetch"
                /\ cur' = item
                /\ UNCHANGED <<faults, skipped_count, store, idx, run_status>>
    /\ stats_markdown' = PyNone
    /\ analysis_result' = PyNone
    /\ part' = 0
    /\ UNCHANGED <<gate, now, gateOnly, convOnly, preOnly, matches_to_analyze,
                   successfully_processed_count, failed_count, items>>

\* orchestration.py:607-633 and 786-793  the fetch of the results page.  An
\* exception of the call is caught by no handler of the loop: the handler of
\* line 787 ends the run.  An empty page is counted and recorded.
PostFetch(r, db_ok) ==
    /\ phase = "p_fetch"
    /\ IF r.raise
       THEN /\ db_ok
            /\ phase' = "idle"
            /\ run_status' = "process_global_failure"
            /\ cur' = [cur EXCEPT !.path = "exception"]
            /\ UNCHANGED <<store, faults, failed_count, idx, stats_markdown>>
       ELSE IF ~NonBlankStr(r.val)
       THEN /\ db_ok \/ faults < MaxFaults
            /\ faults' = IF db_ok THEN faults ELSE faults + 1
            /\ failed_count' = failed_count + 1
            /\ store' = update_one_by_id(store, cur.rec, post_fetch_failed_data(now), db_ok)
            /\ cur' = Written([cur EXCEPT !.fetched = TRUE, !.fetch_val = r.val],
                              "fetch_failed", db_ok)
            /\ Continue
            /\ UNCHANGED stats_markdown
       ELSE /\ db_ok
            /\ phase' = "p_combine"
            /\ stats_markdown' = r.val
            /\ cur' = [cur EXCEPT !.fetched = TRUE, !.fetch_val = r.val]
            /\ UNCHANGED <<store, faults, failed_count, idx, run_status>>
    /\ UNCHANGED <<gate, now, gateOnly, convOnly, preOnly, matches_to_analyze,
                   analysis_result, part, successfully_processed_count, skipped_count,
                   items>>

\* orchestration.py:636-664  the input of the analyzer; a json.dumps that
\* raises is counted and recorded.
CombineInput(db_ok) ==
    /\ phase = "p_combine"
    /\ LET doc == matches_to_analyze[idx + 1]
       IN  IF JsonDumpsOk(doc.predictions)
           THEN /\ db_ok
                /\ stats_markdown' =
                      Str(combined_input_string(doc.predictions, stats_markdown.v))
                /\ phase' = "chat_create"
                /\ UNCHANGED <<store, faults, failed_count, idx, run_status, cur>>
           ELSE /\ db_ok \/ faults < MaxFaults
                /\ faults' = IF db_ok THEN faults ELSE faults + 1
                /\ failed_count' = failed_count + 1
                /\ store' = update_one_by_id(store, cur.rec, input_failed_data(now), db_ok)
                /\ cur' = Written(cur, "input_failed", db_ok)
                /\ Continue
                /\ UNCHANGED stats_markdown
    /\ UNCHANGED <<gate, now, gateOnly, convOnly, preOnly, matches_to_analyze,
                   analysis_result, part, successfully_processed_count, skipped_count,
                   items>>

\* orchestration.py:688-768  the result is written to the document of the
\* match and counted; then the delay, unless the match is the last one.
PostUpdate(db_ok) ==
    /\ task_type = "post_match"
    /\ phase = "save"
    /\ db_ok \/ faults < MaxFaults
    /\ faults' = IF db_ok THEN faults ELSE faults + 1
    /\ store' = update_one_by_id(store, cur.rec, post_update_data(analysis_result, now), db_ok)
    /\ IF db_ok /\ AnalysisSuccessful(analysis_result)
       THEN /\ successfully_processed_count' = successfully_processed_count + 1
            /\ UNCHANGED failed_count
       ELSE /\ failed_count' = failed_count + 1
            /\ UNCHANGED successfully_processed_count
    /\ cur' = Written(cur, IF AnalysisSuccessful(analysis_result) THEN "complete"
                           ELSE "failed", db_ok)
    /\ Continue
    /\ now' = IF LastMatch THEN now ELSE now + DelayBetweenMatches
    /\ UNCHANGED <<gate, gateOnly, convOnly, preOnly, matches_to_analyze, stats_markdown,
                   analysis_result, part, skipped_count, items>>

NextPost ==
    \/ \E db_ok \in BOOLEAN : StartPost(db_ok)
    \/ \E db_ok \in BOOLEAN : PostCheck(db_ok)
    \/ \E r \in FetchOutcomes, db_ok \in BOOLEAN : PostFetch(r, db_ok)
    \/ \E db_ok \in BOOLEAN : CombineInput(db_ok)
    \/ \E created \in BOOLEAN : ChatCreate(created)
    \/ \E resp \in TurnResponses : SendInitial(resp)
    \/ \E resp \in TurnResponses : SendChunk(resp)
    \/ \E resp \in FinalResponses : SendFinal(resp)
    \/ \E db_ok \in BOOLEAN : PostUpdate(db_ok)

\* Post-match batch runs, one after the other, in one process.
SpecPost == InitPost /\ [][NextPost]_vars

\* ------------------------------------------------- the conversation alone
\* The input documents: a blank one, and documents that begin with white
\* space and hold a line break (no character occurs twice).
DocChars == <<" ", "a", "\n", "b", "c", "d", "e", "f">>

ConvDocuments == {<<>>} \cup { SubSeq(DocChars, 1, n) : n \in 1..MaxDocLen }

\* The values an AI reply may serialize.
JsonObjects ==
    { [t |-> "obj", v |-> << << <<"a">>, [t |-> "num", v |-> <<"1">>] >> >>],
      [t |-> "obj", v |-> << << <<"e", "r", "r", "o", "r">>, [t |-> "str", v |-> <<"x">>] >> >>],
      [t |-> "obj", v |-> << << <<"k">>, [t |-> "arr", v |-> <<PyNone>>] >>,
                             << <<"m">>, [t |-> "obj", v |-> <<>>] >> >>],
      [t |-> "obj", v |-> <<>>],
      [t |-> "arr", v |-> <<[t |-> "num", v |-> <<"1">>]>>],
      [t |-> "str", v |-> <<"x">>],
      [t |-> "num", v |-> <<"7">>],
      PyNone }

\* How a reply may wrap its JSON text: not at all, in a markdown fence with
\* the language tag json, in a markdown fence without a tag.
Wraps == {"none", "json", "bare"}

Wrap(w, text) ==
    CASE w = "none" -> text
      [] w = "json" -> FenceJson \o <<"\n">> \o text \o <<"\n">> \o Fence
      [] w = "bare" -> Fence \o <<"\n">> \o text \o <<"\n">> \o Fence

\* A fence that is opened and never closed; white space only.
TextOpenFence == FenceJson \o <<"\n">> \o TextDict

TextBlank == <<" ", "\n">>

\* The replies to the final instruction in the conversation specification.
ConvFinalResponses ==
    FinalResponses
    \cup { Resp(FALSE, "STOP", Str(Wrap(w, JsonDumps(O)))) : w \in Wraps, O \in JsonObjects }
    \cup { Resp(FALSE, "STOP", Str(TextOpenFence)), Resp(FALSE, "STOP", Str(TextBlank)),
           Resp(TRUE, "STOP", Str(TextDict)), Resp(TRUE, "MAX_TOKENS", Str(TextPartial)),
           Resp(TRUE, "SAFETY", Str(<<>>)) }

\* The replies to the initial prompt and to a data part there.
ConvTurnResponses ==
    TurnResponses
    \cup { Resp(TRUE, "STOP", Str(<<"o", "k">>)), Resp(FALSE, "SAFETY", Str(<<>>)),
           Resp(FALSE, "", PyNone) }

\* One call of analyze_with_gemini with a valid configuration, from the
\* creation of the chat session on.
InitConv ==
    /\ now = 0
    /\ gate = [request_count_minute |-> 0, last_request_time |-> now,
               request_count_day |-> 0, last_day_reset |-> DayOfMonth(now)]
    /\ rpm_limit = <<MaxLimit>>
    /\ rpd_limit = <<0>>
    /\ model_name = "GEMINI-1.0-PRO"
    /\ callers = {1}
    /\ pc = [t \in Tasks |-> "idle"]
    /\ current_time = [t \in Tasks |-> 0]
    /\ wake = [t \in Tasks |-> 0]
    /\ running = 0
    /\ acq = [t \in Tasks |-> NoAcq]
    /\ log = <<>>
    /\ advances = 0
    /\ store = <<>>
    /\ fixtures = <<>>
    /\ idx = 0
    /\ phase = "chat_create"
    /\ existing_match = PyNone
    /\ stats_markdown \in { Str(d) : d \in ConvDocuments }
    /\ analysis_result = PyNone
    /\ part = 0
    /\ successfully_processed_count = 0
    /\ failed_count = 0
    /\ items = 0
    /\ faults = 0
    /\ cur = NoItem
    /\ task_type \in {"pre_match", "post_match"}
    /\ chunk_size_chars \in 0..MaxChunkSize
    /\ db_parameters = ValidParameters
    /\ matches_to_analyze = <<>>
    /\ skipped_count = 0
    /\ run_status = ""
    /\ other = IdleRun

NextConv ==
    \/ \E created \in BOOLEAN : ChatCreate(created)
    \/ \E resp \in ConvTurnResponses : SendInitial(resp)
    \/ \E resp \in ConvTurnResponses : SendChunk(resp)
    \/ \E resp \in ConvFinalResponses : SendFinal(resp)

\* The conversation of one work item.
SpecConv == InitConv /\ [][NextConv]_vars

\* ------------------------------------------- runs under any configuration
\* The parameters documents a run may be given: the complete one and, for
\* each required parameter, one where it is missing or invalid.
Configs ==
    LET ok == [prompts |-> ValidParameters, rpm |-> <<MaxLimit>>, rpd |-> <<0>>,
               model |-> "GEMINI-1.0-PRO", chunk |-> PostChunkSize]
    IN  { ok,
          [ok EXCEPT !.prompts.initial_prompt = PyNone],
          [ok EXCEPT !.prompts.final_prompt = Str(<<>>)],
          [ok EXCEPT !.prompts.schema = [t |-> "obj", v |-> <<>>]],
          [ok EXCEPT !.model = ""],
          [ok EXCEPT !.rpm = None],
          [ok EXCEPT !.chunk = 0] }

\* A process that runs batches of one task, one after the other, with one
\* parameters document: pre-match runs over an empty collection, post-match
\* runs over a collection of predicted matches.
InitCfg ==
    /\ now = 0
    /\ gate = [request_count_minute |-> 0, last_request_time |-> now,
               request_count_day |-> 0, last_day_reset |-> DayOfMonth(now)]
    /\ \E c \in Configs :
          /\ rpm_limit = c.rpm
          /\ rpd_limit = c.rpd
          /\ model_name = c.model
          /\ chunk_size_chars = c.chunk
          /\ db_parameters = c.prompts
    /\ callers = {1}
    /\ pc = [t \in Tasks |-> "idle"]
    /\ current_time = [t \in Tasks |-> 0]
    /\ wake = [t \in Tasks |-> 0]
    /\ running = 0
    /\ acq = [t \in Tasks |-> NoAcq]
    /\ log = <<>>
    /\ advances = 0
    /\ task_type \in {"pre_match", "post_match"}
    /\ store \in IF task_type = "pre_match" THEN {<<>>} ELSE PostStores
    /\ fixtures = <<>>
    /\ idx = 0
    /\ phase = "idle"
    /\ existing_match = PyNone
    /\ stats_markdown = PyNone
    /\ analysis_result = PyNone
    /\ part = 0
    /\ successfully_processed_count = 0
    /\ failed_count = 0
    /\ items = 0
    /\ faults = 0
    /\ cur = NoItem
    /\ matches_to_analyze = <<>>
    /\ skipped_count = 0
    /\ run_status = ""
    /\ other = IdleRun

NextCfg == NextBatch \/ NextPost

\* Batch runs of one task under any parameters document.
SpecCfg == InitCfg /\ [][NextCfg]_vars

\* ------------------------------------- a service that does not answer
\* analyzer.py:178, 210, 238  chat.send_message is called without a timeout,
\* on a client built without one.  When the service never answers a message,
\* the call does not return and raises nothing: the handlers of lines 189,
\* 221 and 319 are not reached and the run stays inside the call.
SendUnanswered ==
    /\ phase \in {"send_initial", "send_chunk", "send_final"}
    /\ gate' = Acquire.gate
    /\ now' = Acquire.now
    /\ cur' = [cur EXCEPT !.acqs = @ + 1,
                          !.sends = Append(@, [kind |-> CASE phase = "send_initial" -> "initial"
                                                          [] phase = "send_chunk" -> "chunk"
                                                          [] OTHER -> "final",
                                               part |-> 0, of |-> 0, body |-> <<>>])]
    /\ phase' = "in_send_message"
    /\ UNCHANGED <<gateOnly, convOnly, postOnly, store, fixtures, idx, existing_match,
                   stats_markdown, analysis_result, part, successfully_processed_count,
                   failed_count, items, faults>>

NextLive == NextBatch \/ SendUnanswered

\* Pre-match runs with a service that may leave a message unanswered.  The
\* event loop runs a started run whenever it can take a step.
SpecLive == InitBatch /\ [][NextLive]_vars /\ WF_vars(NextLive)

\* ----------------------------------------------- the gate over a month
\* The process may stay idle for a whole month between two acquisitions.
NextMonth == NextGate \/ Advance(MonthLength * DayLength)

\* The gate under one sequential caller, over days and months.
SpecMonth == InitGate /\ [][NextMonth]_vars

\* ------------------------------------------------- two concurrent runs
\* The locals of the run that holds the event loop.
RunLocals ==
    [fixtures |-> fixtures, idx |-> idx, phase |-> phase, existing_match |-> existing_match,
     stats_markdown |-> stats_markdown, analysis_result |-> analysis_result, part |-> part,
     successfully_processed_count |-> successfully_processed_count,
     failed_count |-> failed_count, run_status |-> run_status, cur |-> cur]

\* routes.py:82-89  each request adds a run as a background task of the one
\* event loop.  A run is suspended while it awaits a store helper (they run
\* the driver call in a thread: mongo_client.py:198, 254, 312), the fetch of a
\* page or the sleep between two matches; the other run goes on meanwhile.
Switch ==
    /\ phase \in {"idle", "lookup", "fetch", "fetch_failed", "save", "delay"}
    /\ other # RunLocals
    /\ other' = RunLocals
    /\ fixtures' = other.fixtures
    /\ idx' = other.idx
    /\ phase' = other.phase
    /\ existing_match' = other.existing_match
    /\ stats_markdown' = other.stats_markdown
    /\ analysis_result' = other.analysis_result
    /\ part' = other.part
    /\ successfully_processed_count' = other.successfully_processed_count
    /\ failed_count' = other.failed_count
    /\ run_status' = other.run_status
    /\ cur' = other.cur
    /\ UNCHANGED <<gate, now, gateOnly, task_type, chunk_size_chars, db_parameters,
                   matches_to_analyze, skipped_count, store, items, faults>>

NextTwo == NextBatch \/ Switch

\* Two pre-match runs in one process, each over its own list of fixtures.
SpecTwo == InitBatch /\ [][NextTwo]_vars

\* ================================================================ claims
\* ---------------------------------------------------------------------
\* C1. With a positive perDayLimit D, at most D acquisitions return within
\* any one calendar day, and an acquisition that finds dayCount >= D does
\* not return before the next calendar day has started.
C1_DailyLimitHeld ==
    LimitSet(rpd_limit) =>
        /\ \A i \in 1..Len(log) : DoneOnDate(DateOf(log[i].ret)) <= rpd_limit[1]
        /\ \A i \in 1..Len(log) :
              log[i].dayHit => DateOf(log[i].ret) > DateOf(log[i].start)

\* ---------------------------------------------------------------------
\* C2. With a positive perMinuteLimit L: an acquisition called when exactly
\* L acquisitions have returned within the last rolling 60 seconds suspends
\* for a strictly positive duration before it returns.
C2_NextSuspends ==
    LimitSet(rpm_limit) =>
        \A i \in 1..Len(log) :
            log[i].rolling = rpm_limit[1] => log[i].ret > log[i].start

\* ---------------------------------------------------------------------
\* C3. With rpm = 2 and the first three acquisitions issued back to back,
\* whatever the minute-window start was at the first call, the third call
\* returns at least 60 seconds after the first call returned.
C3_ThirdAfterMinute ==
    ( /\ rpm_limit = <<2>>
      /\ Len(log) >= 3
      /\ log[2].start = log[1].ret
      /\ log[3].start = log[2].ret )
        => log[3].ret - log[1].ret >= MinuteWindow

\* ---------------------------------------------------------------------
\* C4. Single sequential caller, positive integer perMinuteLimit L: whenever
\* an acquisition returns, minuteCount <= L; and minuteCount is 0 right
\* after every window reset (lines 48 and 67).
C4_MinuteCountWithinLimit ==
    /\ LimitSet(rpm_limit) =>
          /\ \A i \in 1..Len(log) : log[i].count <= rpm_limit[1]
          /\ (running = 0 /\ Len(log) > 0) => gate.request_count_minute <= rpm_limit[1]
    /\ \A t \in Tasks : acq[t].justReset => gate.request_count_minute = 0

\* C4 witness: the limit was reached, the next acquisition slept, reset the
\* window and returned with the count at 1.
C4_Witness ==
    /\ LimitSet(rpm_limit) /\ Len(log) = 3
    /\ log[2].count = rpm_limit[1]
    /\ log[3].ret > log[3].start
    /\ log[3].count = 1
    /\ gate.request_count_minute = 1

\* ---------------------------------------------------------------------
\* C5. Two batch runs calling the gate concurrently with the same
\* perMinuteLimit L (no daily limit, and the model name in the prefixed form
\* the conversation passes): the acquisitions of both runs that return within
\* one minute window of the gate never exceed L.
C5_WindowQuotaHeld ==
    ( /\ LimitSet(rpm_limit) /\ ~LimitSet(rpd_limit)
      /\ model_name = "models/gemini-2.0-flash" )
        => DoneInWindow <= rpm_limit[1]

\* ---------------------------------------------------------------------
\* The fetch of the item gave None, an empty string or a blank string.
FetchGaveNothing == cur.fetched /\ cur.fetch_val \in {PyNone, Str(<<>>), Str(<<" ">>)}

\* The record written for the item is in the store under the item's key.
RecordWritten ==
    /\ cur.rec \in 1..Len(store)
    /\ Matches(store[cur.rec], existing_match_query(cur.match))

\* The final turn of the item ended with STOP and a text that is valid JSON,
\* with or without the json fence around it.
FinalIsValidJson ==
    /\ ~cur.final.raise /\ ~cur.final.block /\ cur.final.finish = "STOP"
    /\ cur.final.text.t = "str"
    /\ JsonLoads(CleanJsonString(cur.final.text.v)).ok

ParsedFinal == JsonLoads(CleanJsonString(cur.final.text.v)).val

\* ---------------------------------------------------------------------
\* C6. An item whose record is already complete is skipped: its record and
\* the whole store stay as they were, no fetch, no acquisition, no session
\* and no send is made for it, and neither the succeeded nor the failed
\* counter moves (only a skipped counter would).
C6_SkipCountsOnlySkipped ==
    cur.path = "skipped" =>
        /\ store = cur.before
        /\ ~cur.fetched /\ cur.acqs = 0 /\ cur.sessions = 0 /\ cur.sends = <<>>
        /\ successfully_processed_count = cur.succ0
        /\ failed_count = cur.fail0

\* ---------------------------------------------------------------------
\* C7. After any sequence of sequential runs, including runs in which a
\* lookup yields no document, the store holds at most one record per
\* identity key (date, home team, away team), and no record is deleted
\* while an item is processed.
C7_OneRecordPerKey ==
    /\ \A a, b \in 1..Len(store) :
          Matches(store[a], existing_match_query(store[b])) => a = b
    /\ Len(store) >= Len(cur.before)
    /\ \A n \in 1..Len(cur.before) : store[n].id = cur.before[n].id

C9_ValidJsonCompletes ==
    (cur.path # "" /\ FinalIsValidJson /\ cur.write # "failed") =>
        /\ analysis_result = ParsedFinal
        /\ RecordWritten
        /\ store[cur.rec].status = "analysis_complete"
        /\ store[cur.rec].predictions = ParsedFinal
        /\ store[cur.rec].markdown_content = PyNone
        /\ store[cur.rec].error_details = PyNone

C11_ExceptionIsolated ==
    /\ cur.path = "exception" =>
          /\ failed_count = cur.fail0 + 1
          /\ successfully_processed_count = cur.succ0
          /\ \/ phase = "lookup" /\ idx >= 1 /\ idx < Len(fixtures)
                /\ fixtures[idx] = cur.match
             \/ phase = "idle" /\ fixtures[Len(fixtures)] = cur.match
    /\ (task_type = "pre_match" /\ phase = "lookup") =>
          successfully_processed_count + failed_count = idx

\* The first of two items raised (nothing was stored for it, no store
\* operation failed), and the second one was analysed and saved.
C11_Witness ==
    /\ cur.match = Match2 /\ cur.path = "complete" /\ cur.write = "ok"
    /\ failed_count = 1 /\ successfully_processed_count = 1
    /\ faults = 0 /\ Len(store) = 1

\* ---------------------------------------------------------------------
\* C12. In a post-match run, an error of item k at any step, an exception
\* of the fetch included, is counted as failed once and leaves a record of
\* the failure on the item's document (when the store takes the write); it
\* never aborts the run: the loop goes on, and a run that is over has the
\* status completed with every selected match counted.
C12_PostErrorIsolated ==
    task_type = "post_match" =>
        /\ run_status \in {"", "completed", "completed_no_matches"}
        /\ cur.path \in {"exception", "fetch_failed", "input_failed", "failed"} =>
              /\ failed_count = cur.fail0 + 1
              /\ cur.write # "failed" =>
                    /\ store[cur.rec].status # "analysis_complete"
                    /\ store[cur.rec].post_match_analysis_status = FALSE
        /\ (phase = "idle" /\ matches_to_analyze # <<>>) =>
              /\ run_status = "completed"
              /\ successfully_processed_count + skipped_count + failed_count
                    = Len(matches_to_analyze)

\* ---------------------------------------------------------------------
\* C13. In a pre-match run, an item that is not skipped leaves, on every
\* way out of its processing (fetch failure, analysis failure, analysis
\* success, unexpected exception, failed store write), a record of its
\* identity key in the store, with a status other than the initial pending
\* one, before the loop moves on.
C13_EveryExitRecorded ==
    (task_type = "pre_match"
        /\ cur.path \in {"exception", "fetch_failed", "complete", "failed"}) =>
            \E n \in 1..Len(store) :
                /\ Matches(store[n], existing_match_query(cur.match))
                /\ store[n].status \in
                      {"stats_fetch_failed", "analysis_failed", "analysis_complete"}

\* ---------------------------------------------------------------------
\* The messages of the kind "chunk" sent so far in the conversation.
ChunkSends == {n \in 1..Len(cur.sends) : cur.sends[n].kind = "chunk"}

\* The final instruction has been sent.
FinalSent == cur.sends # <<>> /\ cur.sends[Len(cur.sends)].kind = "final"

\* C14. Within one conversation every message sent to the AI session comes
\* with one completed acquisition of the gate made for it: at every moment
\* the acquisitions the gate has counted are as many as the messages sent,
\* and a conversation that has sent N chunks and the final instruction has
\* made exactly N + 2 acquisitions.
C14_EverySendGated ==
    /\ cur.acqs = Len(cur.sends)
    /\ gate.request_count_day = Len(cur.sends)
    /\ FinalSent =>
          /\ cur.acqs = Cardinality(ChunkSends) + 2
          /\ gate.request_count_day = Cardinality(ChunkSends) + 2

\* The final instruction was sent after two chunks, and the gate suspended
\* the conversation for the rest of a minute on the way.
C14_Witness ==
    /\ FinalSent /\ Cardinality(ChunkSends) = 2
    /\ now >= MinuteWindow

\* ---------------------------------------------------------------------
\* The bodies of the messages n, n + 1, ... sent so far, one after the other.
RECURSIVE BodiesFrom(_)
BodiesFrom(n) == IF n > Len(cur.sends) THEN <<>> ELSE cur.sends[n].body \o BodiesFrom(n + 1)

\* ceil(n / c)
CeilDiv(n, c) == (n + c - 1) \div c

\* C15. For a non-blank input document of length n and a positive chunk size
\* c the conversation sends N = ceil(n/c) chunk messages in the order of the
\* document: the i-th is labelled i/N and carries at most c characters, only
\* the last one may be shorter, and the bodies put together are the document.
C15_ChunksCoverDocument ==
    (chunk_size_chars > 0 /\ NonBlankStr(stats_markdown)) =>
        LET doc == stats_markdown.v
            c == chunk_size_chars
            N == CeilDiv(Len(doc), c)
        IN  /\ Cardinality(ChunkSends) <= N
            /\ \A n \in ChunkSends :
                  /\ n >= 2 /\ cur.sends[n].part = n - 1 /\ cur.sends[n].of = N
                  /\ Len(cur.sends[n].body) <= c /\ Len(cur.sends[n].body) >= 1
                  /\ n - 1 < N => Len(cur.sends[n].body) = c
                  /\ \A j \in 1..Len(cur.sends[n].body) :
                        cur.sends[n].body[j] = doc[(n - 2) * c + j]
            /\ FinalSent =>
                  /\ Cardinality(ChunkSends) = N
                  /\ BodiesFrom(1) = doc

\* A document of four characters went out in two parts of three and one
\* characters, and the final instruction after them.
C15_Witness ==
    /\ FinalSent /\ chunk_size_chars = 3 /\ Len(stats_markdown.v) = 4
    /\ Len(cur.sends) = 4
    /\ Len(cur.sends[2].body) = 3 /\ Len(cur.sends[3].body) = 1

\* ---------------------------------------------------------------------
\* The reply ends the conversation at a turn before the final one.
Aborting(resp) == resp.raise \/ resp.block

\* The number of chunks of the input document (none for a blank document,
\* after which nothing but the initial prompt is sent).
NumChunks ==
    IF NonBlankStr(stats_markdown)
    THEN CeilDiv(Len(stats_markdown.v), effective_chunk_size(chunk_size_chars))
    ELSE 0

\* C16. The messages of a conversation follow the protocol: the first one is
\* the initial instruction, chunk i+1 is sent only directly after chunk i
\* (chunk 1 after the initial instruction), and the final instruction is sent
\* only after the initial instruction and all N chunks, at most once, as the
\* last message; no message is sent once a turn has ended the conversation.
C16_ProtocolOrder ==
    [][ cur'.sends # cur.sends =>
          LET k == Len(cur.sends)
              m == cur'.sends[k + 1]
          IN  /\ cur'.sends = Append(cur.sends, m)
              /\ analysis_result = PyNone
              /\ k > 0 => ~Aborting(cur.reply)
              /\ k = 0 => m.kind = "initial"
              /\ (k > 0 /\ k <= NumChunks) =>
                    m.kind = "chunk" /\ m.part = k /\ m.of = NumChunks
              /\ k > NumChunks =>
                    /\ k = NumChunks + 1 /\ NonBlankStr(stats_markdown)
                    /\ m.kind = "final"
      ]_vars

\* The initial instruction, three chunks in their order and the final
\* instruction have been sent.
C16_Witness ==
    /\ Len(cur.sends) = 5
    /\ cur.sends[1].kind = "initial" /\ cur.sends[5].kind = "final"
    /\ \A n \in 2..4 : cur.sends[n].kind = "chunk" /\ cur.sends[n].part = n - 1

\* ---------------------------------------------------------------------
\* The result is an error dict whose status ends with the given suffix.
FailureOf(result, suffix) ==
    /\ result.t = "dict" /\ "error" \in DOMAIN result.v
    /\ result.v.status = Msg("analysis_" \o task_type \o "_" \o suffix)

\* The final reply completed normally: finish reason STOP, or none.
NormalStop(resp) == ~resp.raise /\ ~resp.block /\ resp.finish \in {"", "STOP"}

\* C17. The final turn is mapped to the result by these rules, in order: a
\* block gives the failure "blocked" whatever the finish reason and the text
\* are; else MAX_TOKENS gives the failure "max tokens" carrying the partial
\* text; else any other reason than STOP gives the failure "non-stop finish"
\* carrying the partial text and the reason; else (STOP, or no reason) the
\* result is what the JSON extraction makes of the text.  A final turn with
\* a block or a reason other than STOP never yields a success.
C17_FinalTurnMapping ==
    FinalSent =>
        LET r == cur.final
            res == analysis_result
        IN  /\ phase = "save"
            /\ r.raise => res.t = "dict" /\ "error" \in DOMAIN res.v
                           /\ res.v.details = Msg(r.detail)
            /\ (~r.raise /\ r.block) =>
                  FailureOf(res, "final_prompt_blocked") /\ "block_reason" \in DOMAIN res.v
            /\ (~r.raise /\ ~r.block /\ r.finish = "MAX_TOKENS") =>
                  /\ FailureOf(res, "max_tokens")
                  /\ res.v.finish_reason = Msg("MAX_TOKENS")
                  /\ r.text.v # <<>> => res.v.raw_response = r.text
            /\ (~r.raise /\ ~r.block /\ r.finish \notin {"", "STOP", "MAX_TOKENS"}) =>
                  /\ FailureOf(res, "non_stop_finish")
                  /\ res.v.finish_reason = Msg(r.finish)
                  /\ r.text.v # <<>> => res.v.raw_response = r.text
            /\ (NormalStop(r) /\ r.text.t = "str"
                    /\ JsonLoads(CleanJsonString(r.text.v)).ok) =>
                  res = JsonLoads(CleanJsonString(r.text.v)).val
            /\ (NormalStop(r) /\ ~(r.text.t = "str"
                    /\ JsonLoads(CleanJsonString(r.text.v)).ok)) =>
                  res.t = "dict" /\ "error" \in DOMAIN res.v
            /\ ~NormalStop(r) => ~AnalysisSuccessful(res)

\* The final reply was blocked although it carried the finish reason STOP
\* and the text of a JSON object: the result is the failure "blocked".
C17_Witness ==
    /\ FinalSent /\ cur.final = Resp(TRUE, "STOP", Str(TextDict))
    /\ FailureOf(analysis_result, "final_prompt_blocked")

\* ---------------------------------------------------------------------
\* The last message sent is the initial instruction or a chunk.
EarlyTurn ==
    cur.sends # <<>> /\ cur.sends[Len(cur.sends)].kind \in {"initial", "chunk"}

\* The name of the turn in the status of its failure.
TurnName == IF cur.sends[Len(cur.sends)].kind = "initial" THEN "initial_prompt" ELSE "chunk"

\* C18. At the initial turn and at every chunk turn the conversation returns
\* a failure at once if and only if the turn is blocked or its send raises
\* (a rate-limit error being told apart from the other ones); a turn that
\* completes in any other way, with a finish reason other than STOP too,
\* leaves the conversation running with the next send to come (for a blank
\* document, with which there is no next send, the conversation ends after
\* the initial turn with the failure "no input data").  Once a result has
\* been returned there is no acquisition and no send any more.
C18_EarlyTurnAborts ==
    /\ [](EarlyTurn =>
            LET r == cur.reply
            IN  /\ (r.raise /\ r.detail = "429") =>
                      phase = "save" /\ FailureOf(analysis_result, TurnName \o "_rate_limited")
                /\ (r.raise /\ r.detail # "429") =>
                      phase = "save" /\ FailureOf(analysis_result, TurnName \o "_failed")
                /\ (~r.raise /\ r.block) =>
                      phase = "save" /\ FailureOf(analysis_result, TurnName \o "_blocked")
                /\ (~Aborting(r) /\ NonBlankStr(stats_markdown)) =>
                      /\ analysis_result = PyNone
                      /\ phase = IF Len(cur.sends) <= NumChunks THEN "send_chunk"
                                 ELSE "send_final"
                /\ (~Aborting(r) /\ ~NonBlankStr(stats_markdown)) =>
                      phase = "save" /\ FailureOf(analysis_result, "no_input_data"))
    /\ [][ analysis_result # PyNone =>
              cur'.sends = cur.sends /\ cur'.acqs = cur.acqs /\ gate' = gate ]_vars

\* The reply to the only chunk carried the finish reason SAFETY without a
\* block: the conversation goes on to the final instruction.
C18_Witness ==
    /\ Len(cur.sends) = 2 /\ cur.sends[2].kind = "chunk" /\ NumChunks = 1
    /\ cur.reply = Resp(FALSE, "SAFETY", Str(<<>>))
    /\ phase = "send_final" /\ analysis_result = PyNone

\* ---------------------------------------------------------------------
\* C19. JSON extraction round trip: for every value O of JsonObjects
\* (objects with any top-level keys, and JSON values that are no objects)
\* the final text serialize(O), bare or inside a markdown fence with or
\* without the language tag, gives a result that is exactly O and that the
\* caller takes for a success.
C19_RoundTrip ==
    \A w \in Wraps, O \in JsonObjects :
        (FinalSent /\ cur.final = Resp(FALSE, "STOP", Str(Wrap(w, JsonDumps(O))))) =>
            /\ analysis_result = O
            /\ AnalysisSuccessful(analysis_result)

\* ---------------------------------------------------------------------
\* The text without the markdown fence around it: a text that starts with
\* the fence marker (and an optional language tag json) and ends with the
\* closing fence loses both; any other text is only trimmed.
StripFence(text) ==
    LET s0 == Strip(text)
    IN  IF Len(s0) >= 6 /\ StartsWith(s0, Fence) /\ EndsWith(s0, Fence)
        THEN LET inner == DropLast(DropFirst(s0, 3), 3)
             IN  Strip(IF StartsWith(inner, <<"j", "s", "o", "n">>)
                       THEN DropFirst(inner, 4) ELSE inner)
        ELSE s0

\* C20. A final text that is not empty and is not valid JSON once its fence
\* is stripped gives the failure of a malformed JSON text, which carries
\* the text exactly as the AI sent it and the message of the parser; it
\* never gives a success or a repaired object, and extracting the same text
\* again gives the same failure.
C20_MalformedJsonFails ==
    (FinalSent /\ NormalStop(cur.final) /\ cur.final.text.t = "str"
        /\ cur.final.text.v # <<>>
        /\ ~JsonLoads(StripFence(cur.final.text.v)).ok) =>
            /\ FailureOf(analysis_result, "json_decode_error")
            /\ "raw_output" \in DOMAIN analysis_result.v
            /\ analysis_result.v.raw_output = cur.final.text
            /\ "details" \in DOMAIN analysis_result.v
            /\ FinalOutcome(cur.final) = analysis_result

\* C21. In a batch run the inter-item delay elapses between the end of the
\* processing of an item and the start of the next one, on every path; no
\* delay is applied after the last item (the step that ends the run leaves
\* the clock alone).
C21_DelayBetweenItems ==
    [][ /\ (idx' = idx + 1) => (now' >= now + DelayBetweenMatches)
        /\ (phase # "idle" /\ phase' = "idle") => (now' = now) ]_vars

\* C22. A batch run whose parameters are missing or invalid ends with a
\* configuration error before any item is processed: the run never enters
\* the loop over the items, the only status it returns is the configuration
\* error, and nothing is fetched, acquired from the gate, sent to the AI or
\* written to the store.
C22_ConfigErrorBeforeItems ==
    ~ParametersValid =>
        /\ phase = "idle"
        /\ run_status \in {"", "failed_config_parameters"}
        /\ ~cur.fetched
        /\ cur.acqs = 0
        /\ cur.sends = <<>>
        /\ cur.write = "none"
        /\ gate.request_count_day = 0

\* C23. A batch run over a finite list of items always terminates, also when
\* the AI service never answers a message: the turn ends as a transport
\* error after its timeout, so a run that has started is over at some later
\* time and never stays inside a send.
C23_RunTerminates == (phase # "idle") ~> (phase = "idle")

\* The model a name identifies, whether or not the name carries the prefix
\* "models/" of the AI session.
WithoutPrefix(name) ==
    CASE name = "models/GEMINI-1.0-PRO" -> "GEMINI-1.0-PRO"
      [] name = "models/gemini-2.0-flash" -> "gemini-2.0-flash"
      [] name = "models/" -> ""
      [] OTHER -> name

\* C24. Every acquisition the conversation issues for a model of the gate's
\* delay table takes at least the fixed delay of that model, also when both
\* counters are under their limits.
C24_ModelDelayApplied ==
    [][ (cur'.acqs = cur.acqs + 1) =>
            (now' >= now + ModelDelayOf(WithoutPrefix(ModelNameWithPrefix(model_name)))) ]_vars

\* C25. When the daily limit is checked, the day counter holds no
\* acquisition of an earlier calendar date: the first acquisition of a new
\* date has reset it to 0, whatever the gap since the last reset, so the
\* counter is at most the number of acquisitions completed on the current date.
C25_DayCountOfToday ==
    \A t \in callers :
        pc[t] = "day_check" => gate.request_count_day <= DoneOnDate(DateOf(now))

\* C26. Two pre-match runs that execute concurrently over lists sharing an
\* item leave one record for the item's identity key (date, home team, away
\* team) under any interleaving of their lookups and writes: while no store
\* operation has failed, no two records of the store have the same key.
C26_OneRecordConcurrent ==
    faults = 0 =>
        \A a, b \in 1..Len(store) :
            Matches(store[a], existing_match_query(store[b])) => a = b

\* C27. In a pre-match run the succeeded count is the number of items for
\* which the run persisted a record with status analysis_complete: a step
\* increments the counter exactly when it is the save of a successful
\* analysis that the store accepted.
C27_SucceededCountsPersisted ==
    [][ (successfully_processed_count' = successfully_processed_count + 1) <=>
            (phase = "save" /\ cur'.path = "complete" /\ cur'.write = "ok") ]_vars

\* The items of the running batch whose processing is over.
ItemsDone ==
    IF task_type = "pre_match"
    THEN IF phase = "idle" THEN Len(fixtures)
         ELSE IF phase = "delay" THEN idx + 1 ELSE idx
    ELSE IF phase = "idle" THEN Len(matches_to_analyze) ELSE idx

\* C28. Every item of a batch run is counted exactly once: while a pre-match
\* run goes through its fixtures succeeded + failed is the number of items
\* done, and the number of fixtures at its end; in a post-match run
\* succeeded + skipped + failed is the number of matches done, and the number
\* of selected matches when the run ends with status completed.
C28_EveryItemCountedOnce ==
    /\ (task_type = "pre_match" /\ fixtures # <<>>) =>
           successfully_processed_count + failed_count = ItemsDone
    /\ (task_type = "post_match" /\ matches_to_analyze # <<>>
            /\ (phase # "idle" \/ run_status = "completed")) =>
           successfully_processed_count + skipped_count + failed_count = ItemsDone

\* A post-match run over two selected matches has ended with status completed,
\* one match skipped and one match failed or succeeded.
C28_Witness ==
    /\ task_type = "post_match" /\ phase = "idle" /\ run_status = "completed"
    /\ Len(matches_to_analyze) = 2
    /\ skipped_count = 1
    /\ successfully_processed_count + failed_count = 1

\* The pre-match result of a record, and the key a pre-match run looks it up by.
PreMatchResult(doc) ==
    [predictions |-> doc.predictions, predict_status |-> doc.predict_status,
     key |-> existing_match_query(doc)]

\* C29. A post-match run never changes the pre-match result of a record: no
\* step adds or removes a record or changes the predictions, the
\* predict_status or the key of one, and the only record a step writes is the
\* selected match the loop is at.
C29_PreMatchResultKept ==
    [][ /\ Len(store') = Len(store)
        /\ \A n \in 1..Len(store) :
              /\ PreMatchResult(store'[n]) = PreMatchResult(store[n])
              /\ store'[n] # store[n] =>
                    /\ phase \in {"p_check", "p_fetch", "p_combine", "save"}
                    /\ store[n].id = matches_to_analyze[idx + 1].id
                    /\ Matches(store[n], existing_match_query(matches_to_analyze[idx + 1]))
                    /\ store[n].predict_status = TRUE ]_vars

\* A run has written the successful analysis of a selected match to a
\* collection that also holds a record the run did not select.
C29_Witness ==
    /\ task_type = "post_match" /\ run_status = "completed"
    /\ cur.path = "complete" /\ cur.write = "ok"
    /\ store # cur.before
    /\ Len(store) = 2 /\ Len(matches_to_analyze) = 1
    /\ \E n \in 1..2 : store[n].post_match_analysis_status = TRUE
                       /\ store[n].predict_status = TRUE
                       /\ store[n].predictions # PyNone

\* The record is one a post-match run for the date selects.
Selectable(doc) == Matches(doc, post_match_query(TargetDate))

\* The post-match analysis of the record has been persisted as successful.
PostDone(doc) == doc.post_match_analysis_status = TRUE

\* The record is the selected match the loop of the run is at.
AtMatch(doc, list, k, ph) == ph # "idle" /\ list[k + 1].id = doc.id

\* C30. Post-match runs are idempotent and resumable.  A record whose
\* post-match analysis is persisted as successful is not modified by any later
\* step, is not in the selection of a run that starts later and is never the
\* match a loop is at; a selectable record stays selectable until the step
\* that persists its successful analysis, and a run that starts while the
\* store answers selects every selectable record.
C30_IdempotentResumable ==
    [][ /\ \A n \in 1..Len(store) :
              /\ PostDone(store[n]) =>
                    /\ store'[n] = store[n]
                    /\ phase = "idle" =>
                          \A k \in 1..Len(matches_to_analyze') :
                              matches_to_analyze'[k].id # store[n].id
                    /\ ~AtMatch(store[n], matches_to_analyze', idx', phase')
              /\ (Selectable(store[n]) /\ ~Selectable(store'[n])) =>
                    /\ phase = "save" /\ AnalysisSuccessful(analysis_result)
                    /\ cur'.path = "complete" /\ cur'.write = "ok"
                    /\ PostDone(store'[n])
                    /\ AtMatch(store[n], matches_to_analyze, idx, phase)
              /\ (Selectable(store[n]) /\ phase = "idle" /\ faults' = faults) =>
                    \E k \in 1..Len(matches_to_analyze') :
                        matches_to_analyze'[k].id = store[n].id
        /\ Len(store') = Len(store) ]_vars

\* A later run is at a match that an earlier run failed on or skipped, in a
\* collection where a later run cannot be at any other record.
C30_Witness ==
    /\ task_type = "post_match" /\ phase = "p_check" /\ idx = 0
    /\ items = 2 /\ Len(matches_to_analyze) = 1
    /\ \E n \in 1..Len(store) :
          /\ store[n].id = matches_to_analyze[1].id
          /\ Selectable(store[n])
          /\ store[n].status \in {"post_analysis_skipped_no_link",
                                  "post_analysis_skipped_no_predictions",
                                  "post_analysis_fetch_failed",
                                  "post_analysis_input_failed",
                                  "post_analysis_failed"}

====
